---- MODULE Spec2Model ----
(***************************************************************************)
(* Model of the configuration slice of buvis-pybase:                       *)
(*   resolver.py       ConfigResolver.resolve, _load_yaml_config           *)
(*   buvis_settings.py BuvisSettings (the schema that is resolved)         *)
(*   configuration.py  Configuration.__init__ / _determine_config_path     *)
(*                     and the item accessors                              *)
(*   loader.py         ConfigurationLoader._get_search_paths,              *)
(*                     _get_candidate_files, find_config_files,            *)
(*                     _ENV_PATTERN and the substitution built on it       *)
(*   validators.py     validate_nesting_depth, validate_json_env_size      *)
(* Python values are strings: "True"/"False" are the bool objects, the     *)
(* lower-case "true"/"false" are the texts an environment variable holds.  *)
(***************************************************************************)
EXTENDS Integers, Sequences, FiniteSets, TLC

VARIABLES
    environ,              \* os.environ: variable name -> value, None when unset
    fs,                   \* the filesystem: path -> file state
    cwd,                  \* Path.cwd()
    pc,                   \* per thread: position inside ConfigResolver.resolve
    args,                 \* per thread: the arguments of the running resolve call
    original_config_dir,  \* per thread: local of resolve (resolver.py:134)
    yaml_config,          \* per thread: local of resolve (resolver.py:142)
    pending,              \* per thread: the exception that is propagating
    ret,                  \* per thread: how the resolve call ended
    _sources,             \* ConfigResolver._sources
    frozen_attempt,       \* last attempt to assign a field of a returned settings object
    cfg,                  \* the Configuration object under construction
    search_paths,         \* last result of ConfigurationLoader._get_search_paths
    candidates,           \* last result of ConfigurationLoader._get_candidate_files
    substituted,          \* last result of ConfigurationLoader._substitute
    depth_check,          \* last call of validate_nesting_depth
    size_check,           \* last call of validate_json_env_size
    formatted,            \* last call of _format_validation_errors
    got,                  \* last call of Configuration.get_configuration_item
    renamed,              \* last call of lowercase_file_extensions
    handed,               \* the dict the `sources` property handed to its caller
    log                   \* the records the module's logger was handed, oldest first

\* the state the resolver, the settings objects and Configuration work on
program == <<environ, fs, cwd, pc, args, original_config_dir, yaml_config,
             pending, ret, _sources, frozen_attempt, cfg, search_paths, log, handed>>

\* what the calls of the helper functions left behind
results == <<candidates, substituted, depth_check, size_check, formatted, got,
             renamed>>

vars == <<environ, fs, cwd, pc, args, original_config_dir, yaml_config,
          pending, ret, _sources, frozen_attempt, cfg, search_paths,
          candidates, substituted, depth_check, size_check, formatted, got,
          renamed, log, handed>>

(***************************************************************************)
(* Bounds                                                                  *)
(***************************************************************************)
\* largest 0-based line index a YAML problem mark carries in the model
MaxMarkLine == 1

\* longest list of base directories handed to _get_candidate_files
MaxPaths == 2

\* most segments a YAML text handed to _substitute is put together from
MaxSegments == 2

\* most errors one ValidationError handed to the formatter carries
MaxErrors == 2

\* the schema classes are Level0 .. Level<MaxLevel>
MaxLevel == 7
\* files in the directory tree
MaxFiles == 2

(***************************************************************************)
(* Python values                                                           *)
(***************************************************************************)
None == "<None>"          \* Python None; also "variable not in os.environ"
Absent == "<absent>"      \* key not present in a dict
Invalid == "<invalid>"    \* a value the schema rejects
NoMark == -1              \* YAMLError without problem_mark

Threads == {1, 2}

(***************************************************************************)
(* BuvisSettings                                                           *)
(***************************************************************************)
model_config_unfrozen ==
    [env_prefix |-> "BUVIS_", case_sensitive |-> FALSE, frozen |-> FALSE, extra |-> "forbid"]

model_config ==
    [env_prefix |-> "BUVIS_", case_sensitive |-> FALSE, frozen |-> TRUE, extra |-> "forbid"]

\* ToolSettings: its configuration and its one field with the default
ToolSettings_model_config == [frozen |-> TRUE, extra |-> "forbid"]
ToolSettings_fields == [enabled |-> "True"]

\* model_fields of BuvisSettings with their static defaults
model_fields == [debug |-> "False", log_level |-> "INFO"]

Fields == DOMAIN model_fields

LogLevels == {"DEBUG", "INFO", "WARNING", "ERROR", "CRITICAL"}

\* a key that is no field of the schema
UnknownKey == "unknown_key"
Keys == Fields \cup {UnknownKey}

\* a dict over Keys: Absent marks a key the dict does not have
DictKeys(d) == {k \in DOMAIN d : d[k] # Absent}
EmptyDict == [k \in Keys |-> Absent]

\* pydantic validation of one field value (lax mode): bool accepts the bool
\* objects and the texts "true"/"false"; the Literal accepts its members only
Coerce(field, raw) ==
    CASE field = "debug" ->
            IF raw \in {"True", "true"} THEN "True"
            ELSE IF raw \in {"False", "false"} THEN "False"
            ELSE Invalid
      [] field = "log_level" ->
            IF raw \in LogLevels THEN raw ELSE Invalid
      [] OTHER -> Invalid

(***************************************************************************)
(* Environment                                                             *)
(***************************************************************************)
EnvNames == {"BUVIS_DEBUG", "BUVIS_LOG_LEVEL", "BUVIS_CONFIG_DIR",
             "BUVIS_CONFIG_FILE", "DEBUG", "HOME", "XDG_CONFIG_HOME"}

\* k.startswith(env_prefix) for env_prefix = "BUVIS_"
StartsWithPrefix(k) ==
    k \in {"BUVIS_DEBUG", "BUVIS_LOG_LEVEL", "BUVIS_CONFIG_DIR", "BUVIS_CONFIG_FILE"}

\* k.removeprefix(env_prefix).lower()
RemovePrefixLower(k) ==
    CASE k = "BUVIS_DEBUG" -> "debug"
      [] k = "BUVIS_LOG_LEVEL" -> "log_level"
      [] k = "BUVIS_CONFIG_DIR" -> "config_dir"
      [] k = "BUVIS_CONFIG_FILE" -> "config_file"
      [] OTHER -> k

\* a plausible slip: the field is looked up without the prefix
EnvVarOfNoPrefix(field) ==
    CASE field = "debug" -> "DEBUG"
      [] field = "log_level" -> "BUVIS_LOG_LEVEL"

\* the variable pydantic-settings binds to a field: env_prefix + field name
EnvVarOf(field) ==
    CASE field = "debug" -> "BUVIS_DEBUG"
      [] field = "log_level" -> "BUVIS_LOG_LEVEL"

Homes == {"/home/a", "/home/b"}

\* Path.home(): the HOME variable
PathHome(env) == env["HOME"]

(***************************************************************************)
(* Filesystem                                                              *)
(***************************************************************************)
ExplicitPath == "/etc/x.yaml"

\* Path.home() / ".config" / "buvis" / "config.yaml"
DefaultConfigFile(env) == PathHome(env) \o "/.config/buvis/config.yaml"

Paths == {ExplicitPath} \cup {h \o "/.config/buvis/config.yaml" : h \in Homes}

FileAbsent == [kind |-> "absent", mark |-> NoMark, doc |-> EmptyDict]
FileUnreadable == [kind |-> "unreadable", mark |-> NoMark, doc |-> EmptyDict]
FileInvalid(m) == [kind |-> "invalid", mark |-> m, doc |-> EmptyDict]
FileValid(d) == [kind |-> "valid", mark |-> NoMark, doc |-> d]

(***************************************************************************)
(* resolver.py: _load_yaml_config                                          *)
(***************************************************************************)
\* the file _load_yaml_config reads (resolver.py:38-40)
ChosenFile(env, file_path) ==
    IF file_path # None THEN file_path
    ELSE IF env["BUVIS_CONFIG_FILE"] # None THEN env["BUVIS_CONFIG_FILE"]
    ELSE DefaultConfigFile(env)

LineNumZeroBased(mark) == IF mark # NoMark THEN ToString(mark) ELSE "unknown"

\* line_num = mark.line + 1 if mark else "unknown" (resolver.py:49-50)
LineNum(mark) == IF mark # NoMark THEN ToString(mark + 1) ELSE "unknown"

NoError == [type |-> "none", cause |-> "none", path |-> None, line |-> None, fields |-> {}]

YamlSyntaxError(path, mark) ==
    [type |-> "ConfigurationError", cause |-> "yaml", path |-> path,
     line |-> LineNum(mark), fields |-> {}]

LoadYamlPermissionFatal(file, path) ==
    CASE file.kind = "absent" -> [raised |-> FALSE, config |-> EmptyDict, error |-> NoError]
      [] file.kind = "unreadable" ->
            [raised |-> TRUE, config |-> EmptyDict,
             error |-> [type |-> "PermissionError", cause |-> "io", path |-> path,
                        line |-> None, fields |-> {}]]
      [] file.kind = "invalid" ->
            [raised |-> TRUE, config |-> EmptyDict, error |-> YamlSyntaxError(path, file.mark)]
      [] file.kind = "valid" -> [raised |-> FALSE, config |-> file.doc, error |-> NoError]

\* the body of _load_yaml_config once the path is chosen (resolver.py:42-56)
LoadYaml(file, path) ==
    CASE file.kind = "absent" -> [raised |-> FALSE, config |-> EmptyDict, error |-> NoError]
      [] file.kind = "unreadable" -> [raised |-> FALSE, config |-> EmptyDict, error |-> NoError]
      [] file.kind = "invalid" ->
            [raised |-> TRUE, config |-> EmptyDict, error |-> YamlSyntaxError(path, file.mark)]
      [] file.kind = "valid" -> [raised |-> FALSE, config |-> file.doc, error |-> NoError]

_load_yaml_config(env, files, file_path) ==
    LoadYaml(files[ChosenFile(env, file_path)], ChosenFile(env, file_path))

(***************************************************************************)
(* resolver.py: the try block of ConfigResolver.resolve (lines 145-196)    *)
(***************************************************************************)
NoSettings == [f \in Fields |-> None]
EmptySources == [f \in Fields |-> Absent]

\* settings_class(): pydantic-settings binds each field to its prefixed
\* variable, validates it, and falls back to the static default
BaseValue(env, f) ==
    IF env[EnvVarOf(f)] = None THEN model_fields[f] ELSE Coerce(f, env[EnvVarOf(f)])

settings_class(env) ==
    [errors |-> {f \in Fields : BaseValue(env, f) = Invalid},
     settings |-> [f \in Fields |-> BaseValue(env, f)]]

\* resolver.py:151-158: a YAML key is applied when it is a field whose
\* baseline value equals the static default
MergeYaml(base, yaml) ==
    [k \in Keys |->
        IF /\ yaml[k] # Absent
           /\ k \in Fields
           /\ base[k] = model_fields[k]
        THEN yaml[k]
        ELSE Absent]

ApplyCliSkipFalsy(merged, cli) ==
    [k \in Keys |-> IF cli[k] \notin {Absent, None, "False"} THEN cli[k] ELSE merged[k]]

ApplyCliKeepNone(merged, cli) ==
    [k \in Keys |-> IF cli[k] # Absent THEN cli[k] ELSE merged[k]]

\* resolver.py:160-164: every override that is not None replaces the entry
ApplyCliOverrides(merged, cli) ==
    [k \in Keys |-> IF cli[k] \notin {Absent, None} THEN cli[k] ELSE merged[k]]

\* base_settings.model_dump() | merged
DumpOr(base, merged) ==
    [k \in Keys |->
        IF merged[k] # Absent THEN merged[k]
        ELSE IF k \in Fields THEN base[k] ELSE Absent]

\* settings_class.model_validate(values): every field is validated and a
\* key that is no field is rejected (extra="forbid")
model_validate(values) ==
    [errors |-> {f \in Fields : Coerce(f, values[f]) = Invalid}
                \cup (IF model_config.extra = "forbid"
                      THEN {k \in Keys \ Fields : values[k] # Absent}
                      ELSE {}),
     settings |-> [f \in Fields |-> Coerce(f, values[f])]]

\* resolver.py:166-172
BuildFinal(base, merged) ==
    IF DictKeys(merged) # {}
    THEN model_validate(DumpOr(base, merged))
    ELSE [errors |-> {}, settings |-> base]

\* resolver.py:175-180
EnvKeys(env) ==
    {RemovePrefixLower(k) : k \in {n \in EnvNames : env[n] # None /\ StartsWithPrefix(n)}}

\* resolver.py:182-191
TrackSources(env, yaml, cli) ==
    [f \in Fields |->
        IF cli[f] \notin {Absent, None} THEN "cli"
        ELSE IF f \in EnvKeys(env) THEN "env"
        ELSE IF yaml[f] # Absent THEN "yaml"
        ELSE "default"]

\* a component of err["loc"]: a field name or a list index
Key(s) == [is_int |-> FALSE, name |-> s, index |-> 0]
Idx(i) == [is_int |-> TRUE, name |-> "", index |-> i]

\* str(loc)
Str(c) == IF c.is_int THEN ToString(c.index) ELSE c.name

\* ".".join(str(loc) for loc in err["loc"]) (resolver.py:73)
RECURSIVE JoinDots(_)
JoinDots(loc) ==
    IF Len(loc) = 0 THEN ""
    ELSE IF Len(loc) = 1 THEN Str(loc[1])
    ELSE Str(loc[1]) \o "." \o JoinDots(Tail(loc))

\* the locations validation errors are reported at: the fields of
\* BuvisSettings, a key that is no field, and fields of other schemas,
\* nested ones included (adapters/jira/settings.py: server, token)
Locs ==
    {<<Key("debug")>>, <<Key("log_level")>>, <<Key("unknown_key")>>,
     <<Key("server")>>, <<Key("token")>>, <<Key("jira"), Key("token")>>,
     <<Key("servers"), Idx(0), Key("password")>>}

\* is_sensitive_field(field_path) as spec.md 4.3 step 7 and the docstring
\* of _format_validation_errors give it: the path names a secret
\* (password, token, ...)
SecretNames == {"password", "token", "api_key", "secret"}
is_sensitive_field(field_path) ==
    \E loc \in Locs :
        /\ JoinDots(loc) = field_path
        /\ \E i \in 1..Len(loc) : ~loc[i].is_int /\ loc[i].name \in SecretNames

\* one line of the message (resolver.py:72-78)
FormatLineUnmasked(err) == "  " \o JoinDots(err.loc) \o ": " \o err.msg

FormatLine(err) ==
    "  " \o JoinDots(err.loc) \o ": "
    \o (IF is_sensitive_field(JoinDots(err.loc)) THEN "invalid value (hidden)"
        ELSE err.msg)

\* _format_validation_errors (resolver.py:59-79); the message is kept as
\* the list of its lines, which the code joins with "\n"
_format_validation_errors(errors) ==
    <<"Configuration validation failed:">>
    \o [i \in 1..Len(errors) |-> FormatLine(errors[i])]

\* err["msg"] of pydantic for a rejected value of each field and for a key
\* that is no field
LibraryDetail(k) ==
    CASE k = "debug" -> "Input should be a valid boolean, unable to interpret input"
      [] k = "log_level" -> "Input should be 'DEBUG', 'INFO', 'WARNING', 'ERROR' or 'CRITICAL'"
      [] OTHER -> "Extra inputs are not permitted"

KeyOrder == <<"debug", "log_level", "unknown_key">>

\* only the first error is reported
ErrorsOfFirstOnly(fields) ==
    LET failing == SelectSeq(KeyOrder, LAMBDA k : k \in fields)
    IN  IF failing = <<>> THEN <<>>
        ELSE <<[loc |-> <<Key(failing[1])>>, msg |-> LibraryDetail(failing[1])]>>

\* ValidationError.errors(): the fields in schema order, then the extra keys
ErrorsOf(fields) ==
    LET failing == SelectSeq(KeyOrder, LAMBDA k : k \in fields)
    IN  [i \in 1..Len(failing) |->
            [loc |-> <<Key(failing[i])>>, msg |-> LibraryDetail(failing[i])]]

\* resolver.py:195-196
ValidationFailure(fields) ==
    [type |-> "ConfigurationError", cause |-> "validation", path |-> None,
     line |-> None, fields |-> fields,
     message |-> _format_validation_errors(ErrorsOf(fields))]

\* the whole try block: the outcome and the source record it leaves
ResolveBody(env, yaml, cli, old_sources) ==
    LET base == settings_class(env)
        merged == ApplyCliOverrides(MergeYaml(base.settings, yaml), cli)
        final == BuildFinal(base.settings, merged)
    IN  IF base.errors # {}
        THEN [raised |-> TRUE, settings |-> NoSettings,
              error |-> ValidationFailure(base.errors), sources |-> old_sources]
        ELSE IF final.errors # {}
        THEN [raised |-> TRUE, settings |-> NoSettings,
              error |-> ValidationFailure(final.errors), sources |-> old_sources]
        ELSE [raised |-> FALSE, settings |-> final.settings, error |-> NoError,
              sources |-> TrackSources(env, yaml, cli)]

SetConfigDir(env, config_dir) ==
    IF config_dir # None THEN [env EXCEPT !["BUVIS_CONFIG_DIR"] = config_dir] ELSE env

\* one call of a logger method: the message template and the texts put
\* into its %s places
LogRecord(template, words) == [template |-> template, words |-> words]

\* str() of a mapping shows every key with its value; order lists the keys
\* a mapping can have
RECURSIVE Repr(_, _)
Repr(d, order) ==
    IF order = <<>> THEN <<>>
    ELSE (IF d[Head(order)] # Absent THEN <<Head(order), d[Head(order)]>> ELSE <<>>)
         \o Repr(d, Tail(order))

\* resolver.py:139
LogSetDir(config_dir) ==
    IF config_dir # None
    THEN <<LogRecord("Set BUVIS_CONFIG_DIR to %s", <<config_dir>>)>> ELSE <<>>

\* resolver.py:55 inside _load_yaml_config, then resolver.py:143
LogLoad(file, path, loaded, order) ==
    (IF file.kind = "unreadable"
     THEN <<LogRecord("Permission denied reading %s, skipping", <<path>>)>> ELSE <<>>)
    \o (IF ~loaded.raised
        THEN <<LogRecord("Loaded YAML config: %s", Repr(loaded.config, order))>> ELSE <<>>)

\* ConfigResolver._log_sources (resolver.py:203-206): one record per entry
\* of the source record, in the order of the schema's fields
_log_sources(sources, order) ==
    [i \in 1..Len(order) |->
        LogRecord("Config '%s' from %s", <<order[i], sources[order[i]]>>)]

\* the property hands out the resolver's own dict
sources_same_object(record) == [called |-> TRUE, same_object |-> TRUE, value |-> record]

\* the `sources` property (resolver.py:208-211): self._sources.copy(), a new
\* dict with the entries of the record
sources(record) == [called |-> TRUE, same_object |-> FALSE, value |-> record]

\* no finally block at all
RestoreConfigDirSkipped(env, original) == env

RestoreConfigDirNoPop(env, original) ==
    IF original = None THEN env ELSE [env EXCEPT !["BUVIS_CONFIG_DIR"] = original]

\* the finally block (resolver.py:197-201); os.environ.pop leaves the variable unset
RestoreConfigDir(env, original) ==
    [env EXCEPT !["BUVIS_CONFIG_DIR"] = original]

\* one whole call of ConfigResolver.resolve (resolver.py:134-201) as a function
\* of the environment, the files and the arguments
ResolveResult(env, files, a, old_sources) ==
    LET env1 == SetConfigDir(env, a.config_dir)
        loaded == _load_yaml_config(env1, files, a.config_path)
        body == ResolveBody(env1, loaded.config, a.cli_overrides, old_sources)
    IN  IF loaded.raised
        THEN [kind |-> "raised", settings |-> NoSettings, error |-> loaded.error,
              sources |-> old_sources]
        ELSE [kind |-> IF body.raised THEN "raised" ELSE "returned",
              settings |-> body.settings, error |-> body.error,
              sources |-> body.sources]

(***************************************************************************)
(* resolver.py: resolve for a schema with required fields, JiraSettings    *)
(* (adapters/jira/settings.py:20-37); field_mappings keeps its default     *)
(***************************************************************************)
\* FieldInfo.default of a field without default
PydanticUndefined == "<undefined>"

JiraSettings_fields ==
    [server |-> PydanticUndefined, token |-> PydanticUndefined, proxy |-> None]

\* env_prefix = "BUVIS_JIRA_" and the field name, upper case
JiraEnvVarOf(f) ==
    CASE f = "server" -> "BUVIS_JIRA_SERVER"
      [] f = "token" -> "BUVIS_JIRA_TOKEN"
      [] f = "proxy" -> "BUVIS_JIRA_PROXY"

\* the try block of resolve (resolver.py:145-196) for JiraSettings: every
\* value is a string and passes validation; settings_class() fails for a
\* required field that the environment leaves out
JiraResolveBody(env, yaml, cli, old_sources) ==
    LET fields == DOMAIN JiraSettings_fields
        base == [f \in fields |->
                    IF env[JiraEnvVarOf(f)] # None THEN env[JiraEnvVarOf(f)]
                    ELSE JiraSettings_fields[f]]
        missing == {f \in fields : base[f] = PydanticUndefined}
        from_yaml == [f \in fields |->
                         IF yaml[f] # Absent /\ base[f] = JiraSettings_fields[f]
                         THEN yaml[f] ELSE Absent]
        merged == [f \in fields |->
                      IF cli[f] \notin {Absent, None} THEN cli[f] ELSE from_yaml[f]]
        order == SelectSeq(<<"server", "token", "proxy">>, LAMBDA f : f \in missing)
    IN  IF missing # {}
        THEN [raised |-> TRUE, settings |-> [f \in fields |-> None],
              error |-> [type |-> "ConfigurationError", cause |-> "validation",
                         path |-> None, line |-> None, fields |-> missing,
                         message |-> _format_validation_errors(
                             [i \in 1..Len(order) |->
                                 [loc |-> <<Key(order[i])>>, msg |-> "Field required"]])],
              sources |-> old_sources]
        ELSE [raised |-> FALSE,
              settings |-> [f \in fields |->
                               IF merged[f] # Absent THEN merged[f] ELSE base[f]],
              error |-> NoError,
              sources |-> [f \in fields |->
                              IF cli[f] \notin {Absent, None} THEN "cli"
                              ELSE IF env[JiraEnvVarOf(f)] # None THEN "env"
                              ELSE IF yaml[f] # Absent THEN "yaml"
                              ELSE "default"]]

(***************************************************************************)
(* loader.py                                                               *)
(***************************************************************************)
\* Path(p).expanduser(): a leading "~" becomes the home directory
ExpandUser(env, p) ==
    CASE p = "~/custom" -> PathHome(env) \o "/custom"
      [] p = "~/xdg" -> PathHome(env) \o "/xdg"
      [] OTHER -> p

XdgPath(env) ==
    IF env["XDG_CONFIG_HOME"] \notin {None, ""}
    THEN ExpandUser(env, env["XDG_CONFIG_HOME"])
    ELSE PathHome(env) \o "/.config"

_get_search_paths_keep_empty(env, dir) ==
    (IF env["BUVIS_CONFIG_DIR"] # None
     THEN <<ExpandUser(env, env["BUVIS_CONFIG_DIR"])>> ELSE <<>>)
    \o <<XdgPath(env) \o "/buvis", PathHome(env) \o "/.buvis", dir>>

\* ConfigurationLoader._get_search_paths (loader.py:18-47)
_get_search_paths(env, dir) ==
    (IF env["BUVIS_CONFIG_DIR"] \notin {None, ""}
     THEN <<ExpandUser(env, env["BUVIS_CONFIG_DIR"])>> ELSE <<>>)
    \o <<XdgPath(env) \o "/buvis", PathHome(env) \o "/.buvis", dir>>

\* `if tool_name:` (loader.py:63): None and the empty string are falsy
Truthy(v) == v \notin {None, ""}

\* pathlib's `base / name`
JoinPath(base, name) == base \o "/" \o name

RECURSIVE _get_candidate_files_any_name(_, _)
_get_candidate_files_any_name(paths, tool_name) ==
    IF paths = <<>> THEN <<>>
    ELSE <<JoinPath(Head(paths), "buvis.yaml")>>
         \o (IF tool_name # None
             THEN <<JoinPath(Head(paths), "buvis-" \o tool_name \o ".yaml")>>
             ELSE <<>>)
         \o _get_candidate_files_any_name(Tail(paths), tool_name)

\* ConfigurationLoader._get_candidate_files (loader.py:49-65): the loop
\* over the base directories, unrolled from the head of the list
RECURSIVE _get_candidate_files(_, _)
_get_candidate_files(paths, tool_name) ==
    IF paths = <<>> THEN <<>>
    ELSE <<JoinPath(Head(paths), "buvis.yaml")>>
         \o (IF Truthy(tool_name)
             THEN <<JoinPath(Head(paths), "buvis-" \o tool_name \o ".yaml")>>
             ELSE <<>>)
         \o _get_candidate_files(Tail(paths), tool_name)
\* A text is a sequence of characters.  _ENV_PATTERN (loader.py:12),
\*     \$\{([^}:]+)(?::-([^}]*))?\}
\* tried at position i: "${", a non-empty name that runs up to the first
\* "}" or ":", then either "}" or ":-", a default that runs up to the first
\* "}", and that "}".  Both runs are greedy and cannot be shortened, since
\* the character that must follow them is excluded from the run.
RECURSIVE RunEnd(_, _, _)
RunEnd(text, i, stop) ==
    IF i > Len(text) \/ text[i] \in stop THEN i ELSE RunEnd(text, i + 1, stop)

NoMatch == [ok |-> FALSE]

\* the pattern without its default part: \$\{([^}]+)\}
_ENV_PATTERN_plain(text, i) ==
    LET n == Len(text)
        j == RunEnd(text, i + 2, {"}"})
    IN  IF ~(i + 1 <= n /\ text[i] = "$" /\ text[i + 1] = "{") THEN NoMatch
        ELSE IF j = i + 2 \/ j > n THEN NoMatch
        ELSE [ok |-> TRUE, name |-> SubSeq(text, i + 2, j - 1),
              has_default |-> FALSE, default |-> <<>>, start |-> i, end |-> j]

_ENV_PATTERN(text, i) ==
    LET n == Len(text)
        j == RunEnd(text, i + 2, {"}", ":"})
        k == RunEnd(text, j + 2, {"}"})
    IN  IF ~(i + 1 <= n /\ text[i] = "$" /\ text[i + 1] = "{") THEN NoMatch
        ELSE IF j = i + 2 \/ j > n THEN NoMatch
        ELSE IF text[j] = "}"
        THEN [ok |-> TRUE, name |-> SubSeq(text, i + 2, j - 1),
              has_default |-> FALSE, default |-> <<>>, start |-> i, end |-> j]
        ELSE IF j + 1 <= n /\ text[j + 1] = "-" /\ k <= n
        THEN [ok |-> TRUE, name |-> SubSeq(text, i + 2, j - 1),
              has_default |-> TRUE, default |-> SubSeq(text, j + 2, k - 1),
              start |-> i, end |-> k]
        ELSE NoMatch

\* the lookup of a name in os.environ; names are the one-character ones
Unset == [set |-> FALSE, value |-> <<>>]

Getenv(env, name) ==
    IF Len(name) = 1 /\ name[1] \in DOMAIN env THEN env[name[1]] ELSE Unset

\* _substitute(content) as spec.md 4.2 gives it: one pass from the left over
\* the non-overlapping matches; a set variable gives its value, an unset one
\* the default, and without a default the token stays and its name is
\* appended to the missing list
RECURSIVE SubstituteFrom(_, _, _)
SubstituteFrom(env, text, i) ==
    IF i > Len(text) THEN [result |-> <<>>, missing |-> <<>>]
    ELSE LET m == _ENV_PATTERN(text, i)
         IN  IF ~m.ok
             THEN LET rest == SubstituteFrom(env, text, i + 1)
                  IN  [result |-> <<text[i]>> \o rest.result, missing |-> rest.missing]
             ELSE LET rest == SubstituteFrom(env, text, m.end + 1)
                      var == Getenv(env, m.name)
                  IN  IF var.set
                      THEN [result |-> var.value \o rest.result,
                            missing |-> rest.missing]
                      ELSE IF m.has_default
                      THEN [result |-> m.default \o rest.result,
                            missing |-> rest.missing]
                      ELSE [result |-> SubSeq(text, i, m.end) \o rest.result,
                            missing |-> <<m.name>> \o rest.missing]

_substitute(env, text) == SubstituteFrom(env, text, 1)
\* ConfigurationLoader.find_config_files (loader.py:67-85): always raises
find_config_files == [raised |-> TRUE, exc |-> "NotImplementedError", files |-> <<>>]

(***************************************************************************)
(* validators.py                                                           *)
(***************************************************************************)
MAX_NESTING_DEPTH == 5

\* An annotation is a class (a BaseModel subclass or another type), a
\* generic alias with its arguments, or something that is neither (Any).
\* A schema maps each model class to the annotations of its fields in order.
ModelType(c) == [kind |-> "type", is_model |-> TRUE, cls |-> c, args |-> <<>>]
PlainType == [kind |-> "type", is_model |-> FALSE, cls |-> -1, args |-> <<>>]
Generic(type_args) ==
    [kind |-> "generic", is_model |-> FALSE, cls |-> -1, args |-> type_args]

\* only an annotation that is itself a model class is seen
_iter_model_types_direct(annotation) ==
    IF annotation.kind = "type" /\ annotation.is_model THEN <<annotation.cls>> ELSE <<>>

\* _iter_model_types (validators.py:14-32): the stack walk; the models of
\* an annotation in the order they are yielded, each once
RECURSIVE IterStack(_, _)
IterStack(stack, seen) ==
    IF stack = <<>> THEN <<>>
    ELSE LET current == stack[Len(stack)]
             rest == SubSeq(stack, 1, Len(stack) - 1)
         IN  IF current.kind = "type"
             THEN IF current.is_model /\ current.cls \notin seen
                  THEN <<current.cls>> \o IterStack(rest, seen \cup {current.cls})
                  ELSE IterStack(rest, seen)
             ELSE IF current.kind # "generic" THEN IterStack(rest, seen)
             ELSE IterStack(rest \o current.args, seen)

_iter_model_types(annotation) == IterStack(<<annotation>>, {})

\* only the first field of the class is looked at
NestedModelsFirstField(fields) ==
    IF fields = <<>> THEN <<>> ELSE _iter_model_types(Head(fields))

\* the nested models of a class in the order the two loops of
\* get_model_depth visit them (validators.py:52-53)
RECURSIVE NestedModels(_)
NestedModels(fields) ==
    IF fields = <<>> THEN <<>>
    ELSE _iter_model_types(Head(fields)) \o NestedModels(Tail(fields))

Max(a, b) == IF a >= b THEN a ELSE b

\* get_model_depth (validators.py:35-60); DepthLoop is the loop over the
\* nested models with its early return
RECURSIVE get_model_depth(_, _, _)
RECURSIVE DepthLoop(_, _, _, _)
DepthLoop(schema, todo, current_depth, max_depth) ==
    IF todo = <<>> THEN max_depth
    ELSE LET nested_depth == get_model_depth(schema, Head(todo), current_depth + 1)
             m == Max(max_depth, nested_depth)
         IN  IF m >= MAX_NESTING_DEPTH + 1 THEN m
             ELSE DepthLoop(schema, Tail(todo), current_depth, m)

get_model_depth(schema, model_class, current_depth) ==
    IF current_depth >= MAX_NESTING_DEPTH + 1 THEN current_depth
    ELSE DepthLoop(schema, NestedModels(schema[model_class]), current_depth,
                   current_depth)

MAX_JSON_ENV_SIZE == 64 * 1024

\* The value of an environment variable is kept by its length only: how
\* many characters of one byte and of two bytes in UTF-8 ("a", "e-acute")
\* it holds.
NoPayload == [set |-> FALSE, ascii |-> 0, two_byte |-> 0]
Payload(a, b) == [set |-> TRUE, ascii |-> a, two_byte |-> b]

\* len(env_value): characters
LenChars(value) == value.ascii + value.two_byte

\* len(env_value.encode("utf-8")) (validators.py:94): bytes
LenUtf8(value) == value.ascii + 2 * value.two_byte

\* validate_json_env_size (validators.py:80-99)
validate_json_env_size(env, env_var_name) ==
    LET env_value == IF env_var_name \in DOMAIN env THEN env[env_var_name]
                     ELSE NoPayload
        too_big == env_value.set /\ LenUtf8(env_value) > MAX_JSON_ENV_SIZE
    IN  [raised |-> too_big, exc |-> IF too_big THEN "ValueError" ELSE None]

validate_nesting_depth_off_by_one(schema, model_class) ==
    LET depth == get_model_depth(schema, model_class, 0)
    IN  [depth |-> depth, raised |-> depth >= MAX_NESTING_DEPTH,
         exc |-> IF depth >= MAX_NESTING_DEPTH THEN "ValueError" ELSE None]

\* validate_nesting_depth (validators.py:63-77)
validate_nesting_depth(schema, model_class) ==
    LET depth == get_model_depth(schema, model_class, 0)
    IN  [depth |-> depth, raised |-> depth > MAX_NESTING_DEPTH,
         exc |-> IF depth > MAX_NESTING_DEPTH THEN "ValueError" ELSE None]

(***************************************************************************)
(* configuration.py: Configuration.__init__                                *)
(***************************************************************************)
CfgKeys == Keys \cup {"hostname"}
NoConfiguration ==
    [state |-> "none", exc |-> None, file_path |-> None, path_config_file |-> None,
     warned |-> FALSE, config_dict |-> [k \in CfgKeys |-> Absent]]

\* Configuration._determine_config_path (configuration.py:70-122)
_determine_config_path(env, files, file_path) ==
    IF file_path # None
    THEN IF files[file_path].kind # "absent"
         THEN [exc |-> None, path |-> file_path, warned |-> FALSE]
         ELSE [exc |-> "FileNotFoundError", path |-> None, warned |-> FALSE]
    ELSE IF find_config_files.raised
    THEN [exc |-> find_config_files.exc, path |-> None, warned |-> FALSE]
    ELSE IF Len(find_config_files.files) > 0
    THEN [exc |-> None, path |-> Head(find_config_files.files), warned |-> FALSE]
    ELSE IF env["BUVIS_CONFIG_FILE"] # None
    THEN [exc |-> None,
          path |-> IF files[env["BUVIS_CONFIG_FILE"]].kind # "absent"
                   THEN env["BUVIS_CONFIG_FILE"] ELSE None,
          warned |-> TRUE]
    ELSE [exc |-> None,
          path |-> IF files[DefaultConfigFile(env)].kind # "absent"
                   THEN DefaultConfigFile(env) ELSE None,
          warned |-> FALSE]

\* Configuration._load_configuration without substitution (configuration.py:131-134)
_load_configuration(file) ==
    CASE file.kind = "valid" -> [exc |-> None, config |-> file.doc]
      [] file.kind = "invalid" -> [exc |-> "YAMLError", config |-> EmptyDict]
      [] OTHER -> [exc |-> "PermissionError", config |-> EmptyDict]

\* Configuration.__init__ (configuration.py:25-51)
NewConfiguration(env, files, file_path) ==
    LET d == _determine_config_path(env, files, file_path)
        l == _load_configuration(files[d.path])
    IN  IF d.exc # None
        THEN [NoConfiguration EXCEPT !.state = "raised", !.exc = d.exc,
                                     !.file_path = file_path, !.warned = d.warned]
        ELSE IF d.path = None
        THEN [NoConfiguration EXCEPT !.state = "built", !.file_path = file_path,
                                     !.warned = d.warned,
                                     !.config_dict = [k \in CfgKeys |->
                                         IF k = "hostname" THEN "node" ELSE Absent]]
        ELSE IF l.exc # None
        THEN [NoConfiguration EXCEPT !.state = "raised", !.exc = l.exc,
                                     !.file_path = file_path, !.warned = d.warned]
        ELSE [NoConfiguration EXCEPT !.state = "built", !.file_path = file_path,
                                     !.warned = d.warned, !.path_config_file = d.path,
                                     !.config_dict = [k \in CfgKeys |->
                                         IF k = "hostname" THEN "node" ELSE l.config[k]]]

\* `if default:` (configuration.py:165): the truth value of an object
IsTrue(v) == v \notin {None, "", "False"}

\* Configuration.set_configuration_item (configuration.py:136-143)
set_configuration_item(c, key, value) == [c EXCEPT !.config_dict[key] = value]

\* Configuration.get_configuration_item (configuration.py:145-169)
get_configuration_item(c, key, default) ==
    IF c.config_dict[key] # Absent
    THEN [raised |-> FALSE, exc |-> None, value |-> c.config_dict[key]]
    ELSE IF IsTrue(default)
    THEN [raised |-> FALSE, exc |-> None, value |-> default]
    ELSE [raised |-> TRUE, exc |-> "ConfigurationKeyNotFoundError", value |-> None]

(***************************************************************************)
(* filesystem/dir_tree/lowercase_file_extensions.py                        *)
(***************************************************************************)
\* a file is where it is: the directory, and the name as Path.stem and
\* Path.suffix split it; there is False once the file is replaced
FileAt(dir, stem, suffix) == [dir |-> dir, stem |-> stem, suffix |-> suffix, there |-> TRUE]

\* str.lower() on the suffixes of the model
Lower(suffix) ==
    CASE suffix = ".TXT" -> ".txt"
      [] suffix = ".Txt" -> ".txt"
      [] OTHER -> suffix

\* the directories of the model: /d, /d/sub inside it, and /work outside
IsUnder(dir, directory) == dir = directory \/ (dir = "/d/sub" /\ directory = "/d")

SamePlace(f, g) == f.dir = g.dir /\ f.stem = g.stem /\ f.suffix = g.suffix

\* Path.rename(target) on POSIX: the file takes the target's place and a
\* file that was there is replaced
Rename(tree, i, target) ==
    [j \in DOMAIN tree |->
        IF j = i THEN target
        ELSE IF tree[j].there /\ SamePlace(tree[j], target)
        THEN [tree[j] EXCEPT !.there = FALSE]
        ELSE tree[j]]

\* file_path.rename(new_name), line 19: new_name is a bare file name, which
\* the operating system resolves against the working directory
RenameTarget(file, working_dir, new_suffix) ==
    FileAt(working_dir, file.stem, new_suffix)

\* lines 13-20: the loop over directory.rglob("*"), order is the order in
\* which the walk yields the files
RECURSIVE lowercase_file_extensions(_, _, _, _)
lowercase_file_extensions(tree, directory, working_dir, order) ==
    IF order = <<>> THEN tree
    ELSE LET i == Head(order)
             file == tree[i]
             lowercase_ext == Lower(file.suffix)
         IN  IF file.there /\ IsUnder(file.dir, directory)
                /\ lowercase_ext # file.suffix
             THEN lowercase_file_extensions(
                      Rename(tree, i, RenameTarget(file, working_dir, lowercase_ext)),
                      directory, working_dir, Tail(order))
             ELSE lowercase_file_extensions(tree, directory, working_dir, Tail(order))

(***************************************************************************)
(* Inputs                                                                  *)
(***************************************************************************)
YamlDocs ==
    {[debug |-> d, log_level |-> l, unknown_key |-> Absent] :
        d \in {Absent, "True", "False"}, l \in {Absent, "WARNING", "bogus"}}
    \cup {[debug |-> d, log_level |-> Absent, unknown_key |-> "x"] : d \in {Absent, "True"}}

CliOverrides ==
    {[debug |-> d, log_level |-> l, unknown_key |-> Absent] :
        d \in {Absent, None, "True", "False", "maybe"},
        l \in {Absent, "DEBUG", "bogus"}}

ConfigDirArgs == {None, "/tmp/override"}
ConfigPathArgs == {None, ExplicitPath}

FileStates ==
    {FileAbsent, FileUnreadable}
    \cup {FileInvalid(m) : m \in {NoMark} \cup 0..MaxMarkLine}
    \cup {FileValid(d) : d \in YamlDocs}

\* the file in the first home directory, when there is one
HomeDoc == [debug |-> "True", log_level |-> Absent, unknown_key |-> Absent]

EnvResolver ==
    {[BUVIS_DEBUG |-> d, BUVIS_LOG_LEVEL |-> l, BUVIS_CONFIG_DIR |-> c,
      BUVIS_CONFIG_FILE |-> f, DEBUG |-> u, HOME |-> h, XDG_CONFIG_HOME |-> None] :
        d \in {None, "true", "false", "maybe"}, l \in {None, "ERROR"},
        c \in {None, "/original/path"}, f \in {None, ExplicitPath},
        u \in {None, "true"}, h \in Homes}

\* the environments of two calls in a row
EnvTwice == {e \in EnvResolver : e["DEBUG"] = None /\ e["HOME"] = "/home/a"}

EnvLoader ==
    {[BUVIS_DEBUG |-> None, BUVIS_LOG_LEVEL |-> None, BUVIS_CONFIG_DIR |-> c,
      BUVIS_CONFIG_FILE |-> None, DEBUG |-> None, HOME |-> h, XDG_CONFIG_HOME |-> x] :
        c \in {None, "", "/custom/config", "~/custom"},
        x \in {None, "", "/custom/xdg", "~/xdg"}, h \in Homes}

\* base directories and tool names of the tests (test_loader.py:185-224)
CandidateDirs == {"/cfg", "/home/a/.config/buvis", "/work"}
PathLists == UNION {[1..n -> CandidateDirs] : n \in 0..MaxPaths}
ToolNames == {None, "", "payroll"}

\* texts for _substitute: the token shapes of the tests
\* (test_loader.py:47-114) and broken ones, put together in any order
Chars(s) ==
    CASE s = "x" -> <<"x">>
      [] s = "${A}" -> <<"$", "{", "A", "}">>
      [] s = "${B}" -> <<"$", "{", "B", "}">>
      [] s = "${A:-x}" -> <<"$", "{", "A", ":", "-", "x", "}">>
      [] s = "${B:-}" -> <<"$", "{", "B", ":", "-", "}">>
      [] s = "${A:x}" -> <<"$", "{", "A", ":", "x", "}">>
      [] s = "${" -> <<"$", "{">>
      [] s = "}" -> <<"}">>
      [] s = ":-" -> <<":", "-">>
      [] s = "" -> <<>>
      [] s = "v" -> <<"v">>
      [] s = "w" -> <<"w">>
Segments == {"x", "${A}", "${B}", "${A:-x}", "${B:-}", "${A:x}", "${", "}", ":-"}
RECURSIVE Concat(_)
Concat(ss) == IF ss = <<>> THEN <<>> ELSE Head(ss) \o Concat(Tail(ss))
Texts ==
    UNION {{Concat([i \in 1..n |-> Chars(ss[i])]) : ss \in [1..n -> Segments]} :
              n \in 0..MaxSegments}
SetTo(s) == [set |-> TRUE, value |-> Chars(s)]
EnvSubst ==
    {[A |-> a, B |-> b] : a \in {Unset, SetTo(""), SetTo("v"), SetTo("${B}")},
                          b \in {Unset, SetTo("w")}}

\* schemas for validate_nesting_depth: the chain of the tests
\* (test_validators.py:17-42), Level<c> holding a field of Level<c-1>
\* directly or inside a generic, and at most one more model-typed field
\* anywhere, which may point back up the chain
Classes == 0..MaxLevel
Wraps == {"plain", "list", "optional", "dict_of_list"}
Wrap(w, c) ==
    CASE w = "plain" -> ModelType(c)
      [] w = "list" -> Generic(<<ModelType(c)>>)
      [] w = "optional" -> Generic(<<ModelType(c), PlainType>>)
      [] w = "dict_of_list" -> Generic(<<PlainType, Generic(<<ModelType(c)>>)>>)
NoExtra == [on |-> -1, to |-> -1]
Extras == {NoExtra} \cup [on : Classes, to : Classes]
SchemaOf(w, extra) ==
    [c \in Classes |->
        (IF c = 0 THEN <<PlainType>> ELSE <<Wrap(w, c - 1)>>)
        \o (IF extra.on = c THEN <<ModelType(extra.to)>> ELSE <<>>)]
Schemas == {SchemaOf(w, extra) : w \in Wraps, extra \in Extras}

\* environments for validate_json_env_size (test_validators.py:70-108):
\* the variable unset, or a payload of one-byte and two-byte characters
\* whose length lies at either side of the limit
JsonEnvNames == {"TEST_JSON_ENV", "OTHER_JSON_ENV"}
Payloads ==
    {Payload(a, b) :
        a \in {0, 1, 2, MAX_JSON_ENV_SIZE - 2, MAX_JSON_ENV_SIZE - 1,
               MAX_JSON_ENV_SIZE, MAX_JSON_ENV_SIZE + 1},
        b \in {0, 1, (MAX_JSON_ENV_SIZE \div 2) - 1, MAX_JSON_ENV_SIZE \div 2,
               (MAX_JSON_ENV_SIZE \div 2) + 1}}
EnvJson == {[TEST_JSON_ENV |-> v] : v \in {NoPayload} \cup Payloads}

\* validation errors for _format_validation_errors: any location with any
\* detail of the library
Details == {"Field required", "Input should be a valid boolean, unable to interpret input"}
ErrorLists == UNION {[1..n -> [loc : Locs, msg : Details]] : n \in 0..MaxErrors}

\* keys, values and defaults for the item accessors of Configuration; None
\* as default is the parameter left out
ItemKeys == {"debug", "log_level"}
ItemValues == {"v", "False"}
ItemDefaults == {None, "fallback", "", "False"}

NoArgs == [config_dir |-> None, config_path |-> None, cli_overrides |-> EmptyDict]
NoRet == [kind |-> "none", settings |-> NoSettings, error |-> NoError]
NoAttempt ==
    [done |-> FALSE, target |-> None, field |-> None, raised |-> FALSE,
     before |-> NoSettings, after |-> NoSettings]
NoSearch == [called |-> FALSE, paths |-> <<>>]
NoCall == [called |-> FALSE]

InitRest ==
    /\ pc = [t \in Threads |-> "idle"]
    /\ args = [t \in Threads |-> NoArgs]
    /\ original_config_dir = [t \in Threads |-> None]
    /\ yaml_config = [t \in Threads |-> EmptyDict]
    /\ pending = [t \in Threads |-> NoRet]
    /\ ret = [t \in Threads |-> NoRet]
    /\ _sources = EmptySources
    /\ frozen_attempt = NoAttempt
    /\ cfg = NoConfiguration
    /\ search_paths = NoSearch
    /\ candidates = NoCall
    /\ substituted = NoCall
    /\ depth_check = NoCall
    /\ size_check = NoCall
    /\ formatted = NoCall
    /\ got = NoCall
    /\ renamed = NoCall
    /\ handed = NoCall
    /\ log = <<>>

Init ==
    /\ environ \in EnvResolver
    /\ \E x \in FileStates, a \in {FileAbsent, FileValid(HomeDoc)} :
          fs = [p \in Paths |->
                  IF p = ExplicitPath THEN x
                  ELSE IF p = "/home/a/.config/buvis/config.yaml" THEN a
                  ELSE FileAbsent]
    /\ cwd = "/work"
    /\ InitRest

(***************************************************************************)
(* ConfigResolver.resolve, one action per step of the call                 *)
(***************************************************************************)
NothingElseRuns ==
    /\ cfg.state = "none"
    /\ ~frozen_attempt.done
    /\ ~search_paths.called

\* resolver.py:134: the call starts and reads the ambient override
ResolveEnter(t) ==
    /\ pc[t] = "idle"
    /\ NothingElseRuns
    /\ \E d \in ConfigDirArgs, p \in ConfigPathArgs, c \in CliOverrides :
          args' = [args EXCEPT ![t] =
                      [config_dir |-> d, config_path |-> p, cli_overrides |-> c]]
    /\ original_config_dir' = [original_config_dir EXCEPT ![t] = environ["BUVIS_CONFIG_DIR"]]
    /\ pc' = [pc EXCEPT ![t] = "set_dir"]
    /\ UNCHANGED <<environ, fs, cwd, yaml_config, pending, ret, _sources,
                   frozen_attempt, cfg, search_paths>>
    /\ UNCHANGED <<results, log, handed>>

\* resolver.py:137-139
ResolveSetDir(t) ==
    /\ pc[t] = "set_dir"
    /\ environ' = SetConfigDir(environ, args[t].config_dir)
    /\ log' = log \o LogSetDir(args[t].config_dir)
    /\ pc' = [pc EXCEPT ![t] = "load"]
    /\ UNCHANGED <<fs, cwd, args, original_config_dir, yaml_config, pending, ret,
                   _sources, frozen_attempt, cfg, search_paths>>
    /\ UNCHANGED <<results, handed>>

\* resolver.py:142: _load_yaml_config returns the mapping or raises
ResolveLoad(t) ==
    /\ pc[t] = "load"
    /\ LET loaded == _load_yaml_config(environ, fs, args[t].config_path)
           path == ChosenFile(environ, args[t].config_path)
       IN  /\ log' = log \o LogLoad(fs[path], path, loaded, KeyOrder)
           /\ IF loaded.raised
              THEN /\ pending' = [pending EXCEPT ![t] =
                          [kind |-> "raised", settings |-> NoSettings,
                           error |-> loaded.error]]
                   /\ pc' = [pc EXCEPT ![t] = "finally"]
                   /\ UNCHANGED yaml_config
              ELSE /\ yaml_config' = [yaml_config EXCEPT ![t] = loaded.config]
                   /\ pc' = [pc EXCEPT ![t] = "build"]
                   /\ UNCHANGED pending
    /\ UNCHANGED <<environ, fs, cwd, args, original_config_dir, ret, _sources,
                   frozen_attempt, cfg, search_paths>>
    /\ UNCHANGED <<results, handed>>

\* resolver.py:145-196: baseline, merge, validation, source record
ResolveBuild(t) ==
    /\ pc[t] = "build"
    /\ LET body == ResolveBody(environ, yaml_config[t], args[t].cli_overrides, _sources)
       IN  /\ pending' = [pending EXCEPT ![t] =
                  [kind |-> IF body.raised THEN "raised" ELSE "returned",
                   settings |-> body.settings, error |-> body.error]]
           /\ _sources' = body.sources
           /\ log' = log \o (IF body.raised THEN <<>>
                             ELSE _log_sources(body.sources, <<"debug", "log_level">>))
    /\ pc' = [pc EXCEPT ![t] = "finally"]
    /\ UNCHANGED <<environ, fs, cwd, args, original_config_dir, yaml_config, ret,
                   frozen_attempt, cfg, search_paths>>
    /\ UNCHANGED <<results, handed>>

\* resolver.py:197-201: the finally block, then the call ends
ResolveFinally(t) ==
    /\ pc[t] = "finally"
    /\ environ' = RestoreConfigDir(environ, original_config_dir[t])
    /\ ret' = [ret EXCEPT ![t] = pending[t]]
    /\ pending' = [pending EXCEPT ![t] = NoRet]
    /\ pc' = [pc EXCEPT ![t] = "done"]
    /\ UNCHANGED <<fs, cwd, args, original_config_dir, yaml_config, _sources,
                   frozen_attempt, cfg, search_paths>>
    /\ UNCHANGED <<results, log, handed>>

\* resolver.py:134: resolve is called with a config_dir out of dirs and
\* overrides out of clis, whatever else is going on
ResolveCall(t, dirs, clis) ==
    /\ pc[t] = "idle"
    /\ \E d \in dirs, p \in ConfigPathArgs, c \in clis :
          args' = [args EXCEPT ![t] =
                      [config_dir |-> d, config_path |-> p, cli_overrides |-> c]]
    /\ original_config_dir' = [original_config_dir EXCEPT ![t] = environ["BUVIS_CONFIG_DIR"]]
    /\ pc' = [pc EXCEPT ![t] = "set_dir"]
    /\ UNCHANGED <<environ, fs, cwd, yaml_config, pending, ret, _sources,
                   frozen_attempt, cfg, search_paths>>
    /\ UNCHANGED <<results, log, handed>>

\* resolver.sources is read
Sources ==
    /\ ~handed.called
    /\ handed' = sources(_sources)
    /\ UNCHANGED <<environ, fs, cwd, pc, args, original_config_dir, yaml_config,
                   pending, ret, _sources, frozen_attempt, cfg, search_paths, log>>
    /\ UNCHANGED results

\* the caller stores an entry in the dict it was handed; the resolver's
\* record changes with it exactly when the two are one object
CallerWrites ==
    /\ handed.called
    /\ \E f \in Fields, layer \in {"cli", "default"} :
          /\ handed.value[f] # layer
          /\ handed' = [handed EXCEPT !.value[f] = layer]
          /\ _sources' = IF handed.same_object
                         THEN [_sources EXCEPT ![f] = layer] ELSE _sources
    /\ UNCHANGED <<environ, fs, cwd, pc, args, original_config_dir, yaml_config,
                   pending, ret, frozen_attempt, cfg, search_paths, log>>
    /\ UNCHANGED results

\* resolver.py:134: resolve is called once more on the same resolver with
\* the arguments of the call that has ended
ResolveAgain(t, first) ==
    /\ pc[first] = "done"
    /\ pc[t] = "idle"
    /\ args' = [args EXCEPT ![t] = args[first]]
    /\ original_config_dir' = [original_config_dir EXCEPT ![t] = environ["BUVIS_CONFIG_DIR"]]
    /\ pc' = [pc EXCEPT ![t] = "set_dir"]
    /\ UNCHANGED <<environ, fs, cwd, yaml_config, pending, ret, _sources,
                   frozen_attempt, cfg, search_paths>>
    /\ UNCHANGED <<results, log, handed>>

\* BaseModel.__setattr__ on the object resolve returned: a frozen model
\* raises and keeps its fields
AssignField(t) ==
    /\ pc[t] = "done"
    /\ ret[t].kind = "returned"
    /\ ~frozen_attempt.done
    /\ \E f \in Fields, v \in {"True", "DEBUG"} :
          /\ ret' = IF model_config.frozen THEN ret
                    ELSE [ret EXCEPT ![t].settings[f] = v]
          /\ frozen_attempt' =
                [done |-> TRUE, target |-> "BuvisSettings", field |-> f,
                 raised |-> model_config.frozen,
                 before |-> ret[t].settings, after |-> ret'[t].settings]
    /\ UNCHANGED <<environ, fs, cwd, pc, args, original_config_dir, yaml_config,
                   pending, _sources, cfg, search_paths>>
    /\ UNCHANGED <<results, log, handed>>

\* ToolSettings() is constructed and its field is assigned
AssignToolField ==
    /\ \A t \in Threads : pc[t] = "idle"
    /\ NothingElseRuns
    /\ \E v \in {"True", "False"} :
          frozen_attempt' =
             [done |-> TRUE, target |-> "ToolSettings", field |-> "enabled",
              raised |-> ToolSettings_model_config.frozen,
              before |-> ToolSettings_fields,
              after |-> IF ToolSettings_model_config.frozen THEN ToolSettings_fields
                        ELSE [ToolSettings_fields EXCEPT !.enabled = v]]
    /\ UNCHANGED <<environ, fs, cwd, pc, args, original_config_dir, yaml_config,
                   pending, ret, _sources, cfg, search_paths>>
    /\ UNCHANGED <<results, log, handed>>

\* Configuration(file_path): the whole constructor
ConfigurationInit ==
    /\ \A t \in Threads : pc[t] = "idle"
    /\ NothingElseRuns
    /\ \E p \in ConfigPathArgs : cfg' = NewConfiguration(environ, fs, p)
    /\ UNCHANGED <<environ, fs, cwd, pc, args, original_config_dir, yaml_config,
                   pending, ret, _sources, frozen_attempt, search_paths>>
    /\ UNCHANGED <<results, log, handed>>

\* ConfigurationLoader._get_search_paths()
GetSearchPaths ==
    /\ \A t \in Threads : pc[t] = "idle"
    /\ NothingElseRuns
    /\ search_paths' = [called |-> TRUE, paths |-> _get_search_paths(environ, cwd)]
    /\ UNCHANGED <<environ, fs, cwd, pc, args, original_config_dir, yaml_config,
                   pending, ret, _sources, frozen_attempt, cfg>>
    /\ UNCHANGED <<results, log, handed>>

\* ConfigurationLoader._get_candidate_files(paths, tool_name)
GetCandidateFiles ==
    /\ ~candidates.called
    /\ \E ps \in PathLists, tn \in ToolNames :
          candidates' = [called |-> TRUE, paths |-> ps, tool_name |-> tn,
                         files |-> _get_candidate_files(ps, tn)]
    /\ UNCHANGED program
    /\ UNCHANGED <<substituted, depth_check, size_check, formatted, got,
                   renamed>>

\* _substitute(content) on the current environment
Substitute ==
    /\ ~substituted.called
    /\ \E text \in Texts :
          LET out == _substitute(environ, text)
          IN  substituted' = [called |-> TRUE, content |-> text,
                              result |-> out.result, missing |-> out.missing]
    /\ UNCHANGED program
    /\ UNCHANGED <<candidates, depth_check, size_check, formatted, got,
                   renamed>>

\* validate_json_env_size(env_var_name)
ValidateJsonEnvSize ==
    /\ ~size_check.called
    /\ \E env_var_name \in JsonEnvNames :
          LET out == validate_json_env_size(environ, env_var_name)
          IN  size_check' = [called |-> TRUE, env_var_name |-> env_var_name,
                             raised |-> out.raised, exc |-> out.exc]
    /\ UNCHANGED program
    /\ UNCHANGED <<candidates, substituted, depth_check, formatted, got,
                   renamed>>

\* validate_nesting_depth(model_class)
ValidateNestingDepth ==
    /\ ~depth_check.called
    /\ \E schema \in Schemas, model_class \in Classes :
          LET out == validate_nesting_depth(schema, model_class)
          IN  depth_check' = [called |-> TRUE, schema |-> schema,
                              model_class |-> model_class, depth |-> out.depth,
                              raised |-> out.raised, exc |-> out.exc]
    /\ UNCHANGED program
    /\ UNCHANGED <<candidates, substituted, size_check, formatted, got,
                   renamed>>

\* _format_validation_errors(error)
FormatValidationErrors ==
    /\ ~formatted.called
    /\ \E errors \in ErrorLists :
          formatted' = [called |-> TRUE, errors |-> errors,
                        message |-> _format_validation_errors(errors)]
    /\ UNCHANGED program
    /\ UNCHANGED <<candidates, substituted, depth_check, size_check, got,
                   renamed>>

\* Configuration.set_configuration_item(key, value)
SetConfigurationItem ==
    /\ cfg.state = "built"
    /\ \E key \in ItemKeys, value \in ItemValues :
          cfg' = set_configuration_item(cfg, key, value)
    /\ UNCHANGED <<environ, fs, cwd, pc, args, original_config_dir, yaml_config,
                   pending, ret, _sources, frozen_attempt, search_paths>>
    /\ UNCHANGED <<results, log, handed>>

\* Configuration.get_configuration_item(key, default)
GetConfigurationItem ==
    /\ cfg.state = "built"
    /\ \E key \in ItemKeys, default \in ItemDefaults :
          LET out == get_configuration_item(cfg, key, default)
          IN  got' = [called |-> TRUE, key |-> key, default |-> default,
                      stored |-> cfg.config_dict[key], raised |-> out.raised,
                      exc |-> out.exc, value |-> out.value]
    /\ UNCHANGED program
    /\ UNCHANGED <<candidates, substituted, depth_check, size_check, formatted,
                   renamed>>

\* resolve(JiraSettings, config_path=..., cli_overrides=...): the whole call;
\* no config_dir is given, so BUVIS_CONFIG_DIR is put back as it was
ResolveJira ==
    /\ pc[1] = "idle"
    /\ \E c \in [server : {Absent, None, "https://cli"}, token : {Absent, "clitok"},
                  proxy : {Absent}] :
          LET a == [config_dir |-> None, config_path |-> ExplicitPath,
                    cli_overrides |-> c, settings_class |-> "JiraSettings"]
              loaded == _load_yaml_config(environ, fs, a.config_path)
              body == JiraResolveBody(environ, loaded.config, c, _sources)
          IN  /\ args' = [args EXCEPT ![1] = a]
              /\ yaml_config' = [yaml_config EXCEPT ![1] = loaded.config]
              /\ ret' = [ret EXCEPT ![1] =
                            IF loaded.raised
                            THEN [kind |-> "raised", settings |-> NoSettings,
                                  error |-> loaded.error]
                            ELSE [kind |-> IF body.raised THEN "raised" ELSE "returned",
                                  settings |-> body.settings, error |-> body.error]]
              /\ _sources' = IF loaded.raised THEN _sources ELSE body.sources
              /\ log' = log \o LogLoad(fs[ExplicitPath], ExplicitPath, loaded,
                                         <<"server", "token", "proxy">>)
                            \o (IF loaded.raised \/ body.raised THEN <<>>
                                ELSE _log_sources(body.sources,
                                                  <<"server", "token", "proxy">>))
    /\ original_config_dir' = [original_config_dir EXCEPT ![1] = environ["BUVIS_CONFIG_DIR"]]
    /\ pc' = [pc EXCEPT ![1] = "done"]
    /\ UNCHANGED <<environ, fs, cwd, pending, frozen_attempt, cfg, search_paths>>
    /\ UNCHANGED <<results, handed>>

\* one resolve call at a time, a Configuration constructed, a field assigned
Next ==
    \/ ResolveEnter(1)
    \/ ResolveSetDir(1)
    \/ ResolveLoad(1)
    \/ ResolveBuild(1)
    \/ ResolveFinally(1)
    \/ AssignField(1)
    \/ AssignToolField
    \/ ConfigurationInit

Spec == Init /\ [][Next]_vars

\* the search-path and candidate-file construction over their own inputs
InitLoader ==
    /\ environ \in EnvLoader
    /\ fs = [p \in Paths |-> FileAbsent]
    /\ cwd \in {"/work", "/srv/app"}
    /\ InitRest

NextLoader ==
    \/ GetSearchPaths
    \/ GetCandidateFiles

SpecLoader == InitLoader /\ [][NextLoader]_vars

\* two resolve calls in a row on one resolver, same arguments
InitTwice ==
    /\ environ \in EnvTwice
    /\ \E x \in FileStates, a \in {FileAbsent, FileValid(HomeDoc)} :
          fs = [p \in Paths |->
                  IF p = ExplicitPath THEN x
                  ELSE IF p = "/home/a/.config/buvis/config.yaml" THEN a
                  ELSE FileAbsent]
    /\ cwd = "/work"
    /\ InitRest

NextTwice ==
    \/ ResolveEnter(1)
    \/ ResolveSetDir(1)
    \/ ResolveLoad(1)
    \/ ResolveBuild(1)
    \/ ResolveFinally(1)
    \/ ResolveAgain(2, 1)
    \/ ResolveSetDir(2)
    \/ ResolveLoad(2)
    \/ ResolveBuild(2)
    \/ ResolveFinally(2)

SpecTwice == InitTwice /\ [][NextTwice]_vars

\* two calls one after the other, each with its own arguments, and a caller
\* that reads `sources`
FewOverrides ==
    {[debug |-> d, log_level |-> l, unknown_key |-> Absent] :
        d \in {Absent, "maybe"}, l \in {Absent, "DEBUG"}}

InitSeq ==
    /\ environ \in {e \in EnvTwice : e["BUVIS_DEBUG"] \in {None, "true"}
                                     /\ e["BUVIS_CONFIG_FILE"] = None
                                     /\ e["BUVIS_CONFIG_DIR"] = None}
    /\ \E x \in {FileAbsent, FileInvalid(0), FileValid(HomeDoc)} :
          fs = [p \in Paths |-> IF p = ExplicitPath THEN x ELSE FileAbsent]
    /\ cwd = "/work"
    /\ InitRest

NextSeq ==
    \/ ResolveCall(1, ConfigDirArgs, FewOverrides)
    \/ ResolveSetDir(1)
    \/ ResolveLoad(1)
    \/ ResolveBuild(1)
    \/ ResolveFinally(1)
    \/ (pc[1] = "done" /\ ResolveCall(2, ConfigDirArgs, FewOverrides))
    \/ ResolveSetDir(2)
    \/ ResolveLoad(2)
    \/ ResolveBuild(2)
    \/ ResolveFinally(2)
    \/ Sources
    \/ CallerWrites

SpecSeq == InitSeq /\ [][NextSeq]_vars

\* two threads, each calling resolve once with a config_dir of its own;
\* the steps of the two calls interleave in any order
InitThreads ==
    /\ environ \in {e \in EnvTwice : e["BUVIS_DEBUG"] \in {None, "true"}
                                     /\ e["BUVIS_CONFIG_FILE"] = None}
    /\ \E x \in {FileAbsent, FileInvalid(0), FileValid(HomeDoc)} :
          fs = [p \in Paths |-> IF p = ExplicitPath THEN x ELSE FileAbsent]
    /\ cwd = "/work"
    /\ InitRest

NextThreads ==
    \/ ResolveCall(1, {"/tmp/override"}, FewOverrides)
    \/ ResolveSetDir(1)
    \/ ResolveLoad(1)
    \/ ResolveBuild(1)
    \/ ResolveFinally(1)
    \/ ResolveCall(2, {"/tmp/other"}, FewOverrides)
    \/ ResolveSetDir(2)
    \/ ResolveLoad(2)
    \/ ResolveBuild(2)
    \/ ResolveFinally(2)

SpecThreads == InitThreads /\ [][NextThreads]_vars

\* one resolve call for JiraSettings: each of server, token and proxy set
\* or not in the environment and in the YAML file
InitJira ==
    /\ environ \in
          {[n \in EnvNames \cup {"BUVIS_JIRA_SERVER", "BUVIS_JIRA_TOKEN", "BUVIS_JIRA_PROXY"} |->
               CASE n = "BUVIS_JIRA_SERVER" -> s
                 [] n = "BUVIS_JIRA_TOKEN" -> t
                 [] n = "HOME" -> "/home/a"
                 [] OTHER -> None] :
             s \in {None, "https://env"}, t \in {None, "envtok"}}
    /\ \E d \in [server : {Absent, "https://yaml"}, token : {Absent, "yamltok"},
                  proxy : {Absent, "http://proxy"}] :
          fs = [p \in Paths |-> IF p = ExplicitPath THEN FileValid(d) ELSE FileAbsent]
    /\ cwd = "/work"
    /\ InitRest

SpecJira == InitJira /\ [][ResolveJira]_vars

\* directory trees of MaxFiles files in different places
Dirs == {"/d", "/d/sub", "/work"}
Places == {FileAt(d, st, su) : d \in Dirs, st \in {"a", "b"}, su \in {"", ".txt", ".TXT", ".Txt"}}
Trees ==
    {t \in [1..MaxFiles -> Places] :
        \A i, j \in 1..MaxFiles : i # j => ~SamePlace(t[i], t[j])}
Orders == {o \in [1..MaxFiles -> 1..MaxFiles] : \A i, j \in 1..MaxFiles : i # j => o[i] # o[j]}

InitDirTree ==
    /\ environ = [n \in EnvNames |-> None]
    /\ fs = [p \in Paths |-> FileAbsent]
    /\ cwd \in Dirs
    /\ InitRest

\* lowercase_file_extensions(directory)
LowercaseFileExtensions ==
    /\ ~renamed.called
    /\ \E tree \in Trees, directory \in {"/d", "/d/sub"}, order \in Orders :
          renamed' = [called |-> TRUE, directory |-> directory, before |-> tree,
                      after |-> lowercase_file_extensions(tree, directory, cwd, order)]
    /\ UNCHANGED program
    /\ UNCHANGED <<candidates, substituted, depth_check, size_check, formatted, got>>

SpecDirTree == InitDirTree /\ [][LowercaseFileExtensions]_vars

\* a Configuration object and its items
InitItems ==
    /\ environ = [n \in EnvNames |-> IF n = "HOME" THEN "/home/a" ELSE None]
    /\ \E d \in YamlDocs :
          fs = [p \in Paths |-> IF p = ExplicitPath THEN FileValid(d) ELSE FileAbsent]
    /\ cwd = "/work"
    /\ InitRest

NextItems ==
    \/ ConfigurationInit
    \/ SetConfigurationItem
    \/ GetConfigurationItem

SpecItems == InitItems /\ [][NextItems]_vars

\* the message formatter over its own error lists
InitFormat ==
    /\ environ = [n \in EnvNames |-> IF n = "HOME" THEN "/home/a" ELSE None]
    /\ fs = [p \in Paths |-> FileAbsent]
    /\ cwd = "/work"
    /\ InitRest

NextFormat == FormatValidationErrors

SpecFormat == InitFormat /\ [][NextFormat]_vars

\* the substitution of YAML text over its own environments
InitSubst ==
    /\ environ \in EnvSubst
    /\ fs = [p \in Paths |-> FileAbsent]
    /\ cwd = "/work"
    /\ InitRest

NextSubst == Substitute

SpecSubst == InitSubst /\ [][NextSubst]_vars

\* the validators over their own schemas and environments
InitValidators ==
    /\ environ \in EnvJson
    /\ fs = [p \in Paths |-> FileAbsent]
    /\ cwd = "/work"
    /\ InitRest

NextValidators ==
    \/ ValidateNestingDepth
    \/ ValidateJsonEnvSize

SpecValidators == InitValidators /\ [][NextValidators]_vars

(***************************************************************************)
(* Properties of one resolve call (thread 1)                               *)
(***************************************************************************)
Returned == pc[1] = "done" /\ ret[1].kind = "returned"
Raised == pc[1] = "done" /\ ret[1].kind = "raised"
Cli == args[1].cli_overrides
Overridden(f) == Cli[f] \notin {Absent, None}
TheFile == fs[ChosenFile(environ, args[1].config_path)]

\* C1: every override that is not None (False included) is the value the
\* returned settings hold for its field, whatever environment, YAML and
\* default supply.
C1_OverridesWin ==
    Returned => \A k \in Fields : Overridden(k) => ret[1].settings[k] = Cli[k]

C1_Witness ==
    /\ Returned
    /\ Cli["debug"] = "False"
    /\ environ["BUVIS_DEBUG"] = "true"
    /\ TheFile.kind = "valid" /\ TheFile.doc["debug"] = "True"
    /\ ret[1].settings["debug"] = "False"

\* C2: without an override, a field holds the environment's value when the
\* prefixed variable sets a value different from the default; the YAML value
\* when no variable sets it and the YAML mapping has the key; the static
\* default otherwise.
C2_EnvYamlDefault ==
    Returned =>
        \A f \in Fields :
            ~Overridden(f) =>
                ret[1].settings[f] =
                    IF /\ environ[EnvVarOf(f)] # None
                       /\ Coerce(f, environ[EnvVarOf(f)]) # model_fields[f]
                    THEN Coerce(f, environ[EnvVarOf(f)])
                    ELSE IF environ[EnvVarOf(f)] = None /\ yaml_config[1][f] # Absent
                    THEN yaml_config[1][f]
                    ELSE model_fields[f]

\* C3: an override of None is an override not given: outcome and source
\* record are those of the same call with the None keys removed.
RemoveNone(cli) == [k \in Keys |-> IF cli[k] = None THEN Absent ELSE cli[k]]

C3_NoneIsNotProvided ==
    pc[1] = "done" =>
        LET without == ResolveResult(environ, fs,
                           [args[1] EXCEPT !.cli_overrides = RemoveNone(Cli)], EmptySources)
        IN  /\ ret[1].kind = without.kind
            /\ ret[1].settings = without.settings
            /\ ret[1].error = without.error
            /\ _sources = without.sources

C3_Witness ==
    /\ Returned
    /\ Cli["debug"] = None
    /\ environ["BUVIS_DEBUG"] = "true"
    /\ TheFile.kind = "valid" /\ TheFile.doc["debug"] = "False"
    /\ ret[1].settings["debug"] = "True"
    /\ _sources["debug"] = "env"

\* C4: when the call has ended, by return or by raise, BUVIS_CONFIG_DIR is
\* what the call found on entry: the same value, or unset.
C4_ConfigDirRestored ==
    pc[1] = "done" => environ["BUVIS_CONFIG_DIR"] = original_config_dir[1]

C4_Witness ==
    /\ Raised
    /\ args[1].config_dir = "/tmp/override"
    /\ original_config_dir[1] = None
    /\ environ["BUVIS_CONFIG_DIR"] = None

\* C5: a chosen file with invalid YAML makes the call raise ConfigurationError
\* naming the file and the 1-based line of the problem mark, or "unknown".
C5_YamlSyntaxFatal ==
    (pc[1] = "done" /\ TheFile.kind = "invalid") =>
        /\ ret[1].kind = "raised"
        /\ ret[1].error.type = "ConfigurationError"
        /\ ret[1].error.path = ChosenFile(environ, args[1].config_path)
        /\ ret[1].error.line =
              IF TheFile.mark = NoMark THEN "unknown" ELSE ToString(TheFile.mark + 1)

C5_Witness ==
    /\ Raised
    /\ TheFile.kind = "invalid" /\ TheFile.mark = 1
    /\ ret[1].error.path = ExplicitPath
    /\ ret[1].error.line = "2"

\* C6: a chosen file that is missing or unreadable yields the empty mapping
\* and no error of its own: the call ends as environment, overrides and
\* defaults alone decide.
InputsValid ==
    \A f \in Fields :
        /\ environ[EnvVarOf(f)] # None => Coerce(f, environ[EnvVarOf(f)]) # Invalid
        /\ Overridden(f) => Coerce(f, Cli[f]) # Invalid

C6_MissingOrUnreadableIsEmpty ==
    (pc[1] = "done" /\ TheFile.kind \in {"absent", "unreadable"}) =>
        /\ yaml_config[1] = EmptyDict
        /\ ret[1].error.cause \notin {"yaml", "io"}
        /\ InputsValid =>
              /\ ret[1].kind = "returned"
              /\ \A f \in Fields :
                    ret[1].settings[f] =
                        IF Overridden(f) THEN Cli[f]
                        ELSE IF environ[EnvVarOf(f)] # None
                        THEN Coerce(f, environ[EnvVarOf(f)])
                        ELSE model_fields[f]
        /\ ~InputsValid => (ret[1].kind = "raised" /\ ret[1].error.cause = "validation")

C6_Witness ==
    /\ Returned
    /\ TheFile.kind = "unreadable"
    /\ environ["BUVIS_DEBUG"] = "true"
    /\ ~Overridden("debug")
    /\ ret[1].settings["debug"] = "True"
    /\ ret[1].settings["log_level"] = "INFO"

\* C7: discovery that fails counts as "no file found": neither Configuration
\* built without a file path nor resolve called without a config path ends
\* with the discovery error.
C7_DiscoveryFailureNotFatal ==
    /\ (cfg.state # "none" /\ cfg.file_path = None) => cfg.state = "built"
    /\ (pc[1] = "done" /\ args[1].config_path = None) =>
            ret[1].error.type # "NotImplementedError"

\* C8: assigning a field of a settings object raises and leaves every field
\* as it was.
C8_SettingsImmutable ==
    frozen_attempt.done =>
        /\ frozen_attempt.raised
        /\ frozen_attempt.after = frozen_attempt.before
        /\ frozen_attempt.target = "BuvisSettings" =>
              ret[1].settings = frozen_attempt.before

C8_Witness ==
    /\ frozen_attempt.done
    /\ frozen_attempt.target = "BuvisSettings"
    /\ frozen_attempt.field = "debug"
    /\ frozen_attempt.raised
    /\ ret[1].settings["debug"] = "False"

\* C9 as stated: environments that differ only in variables without the
\* prefix resolve to the same outcome.
OutcomeIn(env) == ResolveResult(env, fs, args[1], EmptySources)

C9_UnprefixedNeverInfluence ==
    pc[1] = "done" =>
        \A u \in {None, "true"}, h \in Homes :
            LET other == OutcomeIn([environ EXCEPT !["DEBUG"] = u, !["HOME"] = h])
            IN  other.kind = ret[1].kind /\ other.settings = ret[1].settings

\* C9 amended: environments that agree on the prefixed variables and on HOME
\* (the variable that locates the default YAML file) resolve to the same
\* outcome; no unprefixed variable is bound to a field.
C9_UnprefixedNeverBound ==
    pc[1] = "done" =>
        \A u \in {None, "true"} :
            LET other == OutcomeIn([environ EXCEPT !["DEBUG"] = u])
            IN  /\ other.kind = ret[1].kind
                /\ other.settings = ret[1].settings
                /\ other.error = ret[1].error

C9_Witness ==
    /\ Returned
    /\ environ["DEBUG"] = "true"
    /\ environ["BUVIS_DEBUG"] = None
    /\ TheFile.kind = "absent"
    /\ ~Overridden("debug")
    /\ ret[1].settings["debug"] = "False"

(***************************************************************************)
(* Properties of the search paths                                          *)
(***************************************************************************)
HasOverride == environ["BUVIS_CONFIG_DIR"] \notin {None, ""}
HasXdg == environ["XDG_CONFIG_HOME"] \notin {None, ""}

\* C10: the search paths are the non-empty override, the XDG directory (or
\* ~/.config/buvis), ~/.buvis and the working directory, in this order: four
\* entries with an override, three without, and never the empty string.
C10_SearchPathOrder ==
    search_paths.called =>
        /\ Len(search_paths.paths) = IF HasOverride THEN 4 ELSE 3
        /\ HasOverride =>
              search_paths.paths[1] =
                  IF environ["BUVIS_CONFIG_DIR"] = "~/custom"
                  THEN environ["HOME"] \o "/custom"
                  ELSE environ["BUVIS_CONFIG_DIR"]
        /\ search_paths.paths[Len(search_paths.paths) - 2] =
              IF ~HasXdg THEN environ["HOME"] \o "/.config/buvis"
              ELSE IF environ["XDG_CONFIG_HOME"] = "~/xdg"
              THEN environ["HOME"] \o "/xdg/buvis"
              ELSE environ["XDG_CONFIG_HOME"] \o "/buvis"
        /\ search_paths.paths[Len(search_paths.paths) - 1] = environ["HOME"] \o "/.buvis"
        /\ search_paths.paths[Len(search_paths.paths)] = cwd
        /\ \A i \in 1..Len(search_paths.paths) : search_paths.paths[i] # ""

C10_Witness ==
    /\ search_paths.called
    /\ environ["BUVIS_CONFIG_DIR"] = ""
    /\ environ["XDG_CONFIG_HOME"] = "/custom/xdg"
    /\ search_paths.paths = <<"/custom/xdg/buvis", environ["HOME"] \o "/.buvis", cwd>>


(***************************************************************************)
(* Candidate files of the loader                                           *)
(***************************************************************************)
NoTool == candidates.tool_name \in {None, ""}

\* C11: the candidate list holds, for each directory in the order given,
\* <dir>/buvis.yaml and then, only for a non-empty tool name,
\* <dir>/buvis-<tool_name>.yaml; its length is len(paths) without a tool
\* name and 2 * len(paths) with one
C11_CandidateOrder ==
    candidates.called =>
        LET ps == candidates.paths
            tn == candidates.tool_name
            fl == candidates.files
        IN  IF NoTool
            THEN /\ Len(fl) = Len(ps)
                 /\ \A i \in 1..Len(ps) : fl[i] = ps[i] \o "/buvis.yaml"
            ELSE /\ Len(fl) = 2 * Len(ps)
                 /\ \A i \in 1..Len(ps) :
                       /\ fl[2 * i - 1] = ps[i] \o "/buvis.yaml"
                       /\ fl[2 * i] = ps[i] \o "/buvis-" \o tn \o ".yaml"

C11_Witness ==
    /\ candidates.called
    /\ candidates.paths = <<"/cfg", "/work">>
    /\ candidates.tool_name = "payroll"
    /\ candidates.files = <<"/cfg/buvis.yaml", "/cfg/buvis-payroll.yaml",
                            "/work/buvis.yaml", "/work/buvis-payroll.yaml">>

(***************************************************************************)
(* Substitution of environment variables in YAML text                      *)
(***************************************************************************)
\* the token grammar of the claim: "${", a non-empty NAME without "}" and
\* ":", then "}" or ":-", a default without "}", and "}"; i is where the
\* token starts, j where NAME ends, e where the token ends
NoneOf(text, a, b, stop) == \A q \in a..b : text[q] \notin stop

IsToken(text, i, j, e) ==
    /\ i + 2 < j /\ j <= e /\ e <= Len(text)
    /\ text[i] = "$" /\ text[i + 1] = "{" /\ text[e] = "}"
    /\ NoneOf(text, i + 2, j - 1, {"}", ":"})
    /\ \/ j = e
       \/ /\ j + 2 <= e
          /\ text[j] = ":" /\ text[j + 1] = "-"
          /\ NoneOf(text, j + 2, e - 1, {"}"})

TokenAt(text, i) ==
    LET ends == {je \in (i..Len(text)) \X (i..Len(text)) :
                    IsToken(text, i, je[1], je[2])}
    IN  IF ends = {} THEN [ok |-> FALSE]
        ELSE LET je == CHOOSE x \in ends : TRUE
             IN  [ok |-> TRUE, name |-> SubSeq(text, i + 2, je[1] - 1),
                  has_default |-> je[1] # je[2],
                  default |-> SubSeq(text, je[1] + 2, je[2] - 1),
                  start |-> i, end |-> je[2]]

\* the tokens of a text, found from the left, each search starting behind
\* the previous token
RECURSIVE Tokens(_, _)
Tokens(text, i) ==
    IF i > Len(text) THEN <<>>
    ELSE LET m == TokenAt(text, i)
         IN  IF m.ok THEN <<m>> \o Tokens(text, m.end + 1)
             ELSE Tokens(text, i + 1)

\* what the claim puts in the place of one token
Replacement(env, text, tok) ==
    LET name == tok.name
        known == Len(name) = 1 /\ name[1] \in DOMAIN env /\ env[name[1]].set
    IN  IF known THEN env[name[1]].value
        ELSE IF tok.has_default THEN tok.default
        ELSE SubSeq(text, tok.start, tok.end)

LeftUnchanged(env, tok) ==
    /\ ~(Len(tok.name) = 1 /\ tok.name[1] \in DOMAIN env /\ env[tok.name[1]].set)
    /\ ~tok.has_default

\* the text between the tokens kept, every token replaced
Rebuilt(env, text) ==
    LET toks == Tokens(text, 1)
        n == Len(toks)
        Gap(k) == SubSeq(text, IF k = 0 THEN 1 ELSE toks[k].end + 1,
                               IF k = n THEN Len(text) ELSE toks[k + 1].start - 1)
    IN  Concat([p \in 1..(2 * n + 1) |->
                   IF p % 2 = 1 THEN Gap((p - 1) \div 2)
                   ELSE Replacement(env, text, toks[p \div 2])])

NamesOf(toks) == [k \in 1..Len(toks) |-> toks[k].name]

\* C12: every ${NAME} / ${NAME:-default} token is replaced by the value of
\* NAME when it is set (the empty string included, the value not scanned
\* again), else by the default when one is given, else left as it is; the
\* missing list holds exactly the names of the tokens left as they are, in
\* order of occurrence
C12_Substitution ==
    substituted.called =>
        LET text == substituted.content
            toks == Tokens(text, 1)
        IN  /\ substituted.result = Rebuilt(environ, text)
            /\ substituted.missing =
                  NamesOf(SelectSeq(toks, LAMBDA t : LeftUnchanged(environ, t)))

\* ${A}${B:-} with A set to the text ${B} and B unset: the value of A is
\* not scanned again, B takes its empty default, nothing is missing
C12_Witness ==
    /\ substituted.called
    /\ environ.A = SetTo("${B}")
    /\ ~environ.B.set
    /\ substituted.content = Chars("${A}") \o Chars("${B:-}")
    /\ substituted.result = Chars("${B}")
    /\ substituted.missing = <<>>

(***************************************************************************)
(* Validators                                                              *)
(***************************************************************************)
\* the model classes an annotation mentions, at any depth of generics
RECURSIVE Mentions(_)
Mentions(a) ==
    IF a.kind = "type" THEN (IF a.is_model THEN {a.cls} ELSE {})
    ELSE UNION {Mentions(a.args[i]) : i \in 1..Len(a.args)}

Children(schema, c) ==
    UNION {Mentions(schema[c][i]) : i \in 1..Len(schema[c])}

\* the classes at the end of a chain of exactly k nested fields
RECURSIVE ChainEnds(_, _, _)
ChainEnds(schema, from, k) ==
    IF k = 0 THEN from
    ELSE ChainEnds(schema, UNION {Children(schema, c) : c \in from}, k - 1)

ChainLongerThan(schema, root, n) == ChainEnds(schema, {root}, n + 1) # {}

\* C13: validate_nesting_depth raises ValueError exactly when a chain of
\* nested schema-typed fields from the root is longer than 5; a flat
\* schema has depth 0
C13_NestingDepth ==
    depth_check.called =>
        LET schema == depth_check.schema
            root == depth_check.model_class
        IN  /\ depth_check.raised <=> ChainLongerThan(schema, root, 5)
            /\ depth_check.raised => depth_check.exc = "ValueError"
            /\ Children(schema, root) = {} => depth_check.depth = 0

\* Level5 of the plain chain passes with depth 5
C13_Witness ==
    /\ depth_check.called
    /\ depth_check.schema = SchemaOf("plain", NoExtra)
    /\ depth_check.model_class = 5
    /\ depth_check.depth = 5
    /\ ~depth_check.raised

CheckedValue ==
    IF size_check.env_var_name \in DOMAIN environ
    THEN environ[size_check.env_var_name] ELSE NoPayload

\* C14: validate_json_env_size raises ValueError exactly when the variable
\* is set and its value is longer than 65536 bytes of UTF-8 (bytes, not
\* characters); exactly 65536 bytes and an unset variable pass
C14_JsonEnvSize ==
    size_check.called =>
        /\ size_check.raised <=>
              /\ CheckedValue.set
              /\ CheckedValue.ascii + 2 * CheckedValue.two_byte > 65536
        /\ size_check.raised => size_check.exc = "ValueError"

\* 32768 two-byte characters and one one-byte character: 32769 characters,
\* 65537 bytes, rejected
C14_Witness ==
    /\ size_check.called
    /\ size_check.env_var_name = "TEST_JSON_ENV"
    /\ environ.TEST_JSON_ENV = Payload(1, 32768)
    /\ size_check.raised

(***************************************************************************)
(* Two resolve calls in a row                                              *)
(***************************************************************************)
BothDone == pc[1] = "done" /\ pc[2] = "done"

\* C15: a second resolve call on the same resolver with the same inputs
\* ends as the first did, field for field; it found the environment as the
\* first call found it, and a new resolver would give the same result
C15_Idempotent ==
    BothDone =>
        LET fresh == ResolveResult(environ, fs, args[1], EmptySources)
        IN  /\ args[2] = args[1]
            /\ ret[2].kind = ret[1].kind
            /\ \A f \in Fields : ret[2].settings[f] = ret[1].settings[f]
            /\ ret[2].error = ret[1].error
            /\ original_config_dir[2] = original_config_dir[1]
            /\ ret[2].kind = fresh.kind /\ ret[2].settings = fresh.settings

\* both calls returned, with a directory override, a YAML value and a
\* command-line value in play
C15_Witness ==
    /\ BothDone
    /\ ret[1].kind = "returned" /\ ret[2].kind = "returned"
    /\ args[1].config_dir = "/tmp/override"
    /\ environ["BUVIS_CONFIG_DIR"] = None
    /\ _sources["debug"] = "yaml"
    /\ _sources["log_level"] = "cli"
    /\ ret[2].settings = [debug |-> "True", log_level |-> "DEBUG"]

(***************************************************************************)
(* Validation failures of a resolve call                                   *)
(***************************************************************************)
\* the fields whose environment value the schema rejects
BadEnvFields ==
    {f \in Fields : environ[EnvVarOf(f)] # None
                    /\ Coerce(f, environ[EnvVarOf(f)]) = Invalid}

\* the fields whose override the schema rejects
BadCliFields == {f \in Fields : Overridden(f) /\ Coerce(f, Cli[f]) = Invalid}

\* the fields whose YAML value is applied and rejected: no override, the
\* baseline at its default
BadYamlFields ==
    {f \in Fields : /\ ~Overridden(f)
                    /\ environ[EnvVarOf(f)] = None
                    /\ yaml_config[1][f] # Absent
                    /\ Coerce(f, yaml_config[1][f]) = Invalid}

Offending == IF BadEnvFields # {} THEN BadEnvFields ELSE BadCliFields \cup BadYamlFields

\* the message has a line that starts with the path of the field
NamedInMessage(message, f) ==
    \E i \in 2..Len(message) :
        message[i] \in {"  " \o f \o ": " \o LibraryDetail(f),
                        "  " \o f \o ": invalid value (hidden)"}

YamlLoaded == TheFile.kind # "invalid"

\* C16: a schema validation failure, of the baseline built from environment
\* and defaults or of the merged values, ends the call with
\* ConfigurationError whose message names every offending field; no settings
\* object is returned then, and none that is returned holds a rejected value
C16_ValidationFailureRaised ==
    /\ (pc[1] = "done" /\ YamlLoaded /\ Offending # {}) =>
          /\ ret[1].kind = "raised"
          /\ ret[1].settings = NoSettings
          /\ ret[1].error.type = "ConfigurationError"
          /\ ret[1].error.cause = "validation"
          /\ \A f \in Offending : NamedInMessage(ret[1].error.message, f)
    /\ Returned => \A f \in Fields : ret[1].settings[f] \notin {Invalid, None}

\* the baseline is valid and both overrides are rejected together
C16_Witness ==
    /\ Raised
    /\ BadEnvFields = {}
    /\ Cli["debug"] = "maybe"
    /\ Cli["log_level"] = "bogus"
    /\ ret[1].error.cause = "validation"
    /\ ret[1].error.message =
          <<"Configuration validation failed:",
            "  debug: Input should be a valid boolean, unable to interpret input",
            "  log_level: Input should be 'DEBUG', 'INFO', 'WARNING', 'ERROR' or 'CRITICAL'">>

(***************************************************************************)
(* The message of a validation failure                                     *)
(***************************************************************************)
\* the paths of the model that name a secret
SensitivePaths == {"token", "jira.token", "servers.0.password"}

\* C17: in the message of a validation failure the line of a sensitive
\* field shows its path and the fixed text 'invalid value (hidden)', never
\* the detail of the library; the line of any other field shows its path
\* and that detail
C17_SensitiveDetailHidden ==
    formatted.called =>
        /\ Len(formatted.message) = Len(formatted.errors) + 1
        /\ \A i \in 1..Len(formatted.errors) :
              LET err == formatted.errors[i]
                  path == JoinDots(err.loc)
                  line == formatted.message[i + 1]
              IN  IF path \in SensitivePaths
                  THEN /\ line = "  " \o path \o ": invalid value (hidden)"
                       /\ line # "  " \o path \o ": " \o err.msg
                  ELSE line = "  " \o path \o ": " \o err.msg

C17_Witness ==
    /\ formatted.called
    /\ formatted.errors =
          <<[loc |-> <<Key("servers"), Idx(0), Key("password")>>,
             msg |-> "Input should be a valid boolean, unable to interpret input"],
            [loc |-> <<Key("server")>>, msg |-> "Field required"]>>
    /\ formatted.message =
          <<"Configuration validation failed:",
            "  servers.0.password: invalid value (hidden)",
            "  server: Field required">>

(***************************************************************************)
(* Items of a Configuration                                                *)
(***************************************************************************)
\* C18: get_configuration_item returns the stored value when the key is
\* present (so the value last set for it), the default when the key is
\* absent and a default was supplied, and raises
\* ConfigurationKeyNotFoundError only when the key is absent and no default
\* was supplied
C18_GetItem ==
    got.called =>
        IF got.stored # Absent
        THEN ~got.raised /\ got.value = got.stored
        ELSE IF got.default # None
        THEN ~got.raised /\ got.value = got.default
        ELSE got.raised /\ got.exc = "ConfigurationKeyNotFoundError"

(***************************************************************************)
(* The file a Configuration is built from                                  *)
(***************************************************************************)
\* the path the fallbacks behind discovery arrive at
FallbackPath ==
    LET p == IF environ["BUVIS_CONFIG_FILE"] # None THEN environ["BUVIS_CONFIG_FILE"]
             ELSE DefaultConfigFile(environ)
    IN  IF fs[p].kind # "absent" THEN p ELSE None

\* C19: an explicit file_path is used alone (FileNotFoundError when it does
\* not exist, no warning); without one, and with discovery finding nothing,
\* BUVIS_CONFIG_FILE is taken with a DeprecationWarning exactly when it is
\* consulted, else ~/.config/buvis/config.yaml, and when none exists the
\* object is built without a config file path
C19_FileChoiceOrder ==
    cfg.state # "none" =>
        IF cfg.file_path # None
        THEN /\ ~cfg.warned
             /\ fs[cfg.file_path].kind = "absent" =>
                   cfg.state = "raised" /\ cfg.exc = "FileNotFoundError"
             /\ fs[cfg.file_path].kind = "valid" =>
                   cfg.state = "built" /\ cfg.path_config_file = cfg.file_path
        ELSE /\ cfg.warned <=> environ["BUVIS_CONFIG_FILE"] # None
             /\ FallbackPath = None =>
                   cfg.state = "built" /\ cfg.path_config_file = None
             /\ (FallbackPath # None /\ fs[FallbackPath].kind = "valid") =>
                   cfg.state = "built" /\ cfg.path_config_file = FallbackPath

(***************************************************************************)
(* An environment value that repeats the default                           *)
(***************************************************************************)
EnvRepeatsDefault(f) ==
    /\ environ[EnvVarOf(f)] # None
    /\ Coerce(f, environ[EnvVarOf(f)]) = model_fields[f]

\* C20: a field that a prefixed environment variable sets to its static
\* default, that the YAML file sets to another value and that no override
\* names, resolves to the value of the environment
C20_EnvRepeatingDefaultWins ==
    Returned =>
        \A f \in Fields :
            (/\ EnvRepeatsDefault(f)
             /\ yaml_config[1][f] \notin {Absent, model_fields[f]}
             /\ ~Overridden(f))
            => ret[1].settings[f] = model_fields[f]

(***************************************************************************)
(* Required fields                                                         *)
(***************************************************************************)
Required == {f \in DOMAIN JiraSettings_fields : JiraSettings_fields[f] = PydanticUndefined}
InEnv(f) == environ[JiraEnvVarOf(f)] # None
InCli(f) == args[1].cli_overrides[f] \notin {Absent, None}
InYaml(f) == yaml_config[1][f] # Absent

\* C21: a required field that the environment does not supply and that the
\* YAML file or a non-None override supplies holds that value (the
\* override's if both supply it) and the call succeeds, every required
\* field being supplied by some source
C21_RequiredFromYamlOrCli ==
    (pc[1] = "done" /\ \A f \in Required : InEnv(f) \/ InCli(f) \/ InYaml(f)) =>
        /\ ret[1].kind = "returned"
        /\ \A f \in Required :
              (~InEnv(f)) =>
                  ret[1].settings[f] =
                      IF InCli(f) THEN args[1].cli_overrides[f] ELSE yaml_config[1][f]

(***************************************************************************)
(* The YAML file resolve reads                                             *)
(***************************************************************************)
DocAt(p) == IF p \in DOMAIN fs /\ fs[p].kind = "valid" THEN fs[p].doc ELSE EmptyDict

\* the existing files among the candidates of the search directories, the
\* config_dir override (in BUVIS_CONFIG_DIR while the call runs) first
Discovered(tn) ==
    SelectSeq(_get_candidate_files(_get_search_paths(environ, cwd), tn),
              LAMBDA p : p \in DOMAIN fs /\ fs[p].kind # "absent")

\* C22: with an explicit config path the YAML mapping is that file's; without
\* one it is the mapping of the first file discovery returns for the
\* resolver's tool, and empty when discovery returns no file
C22_YamlFromDiscovery ==
    pc[1] = "build" =>
        IF args[1].config_path # None
        THEN yaml_config[1] = DocAt(args[1].config_path)
        ELSE \E tn \in ToolNames :
                yaml_config[1] = IF Discovered(tn) = <<>> THEN EmptyDict
                                 ELSE DocAt(Head(Discovered(tn)))

(***************************************************************************)
(* A YAML key that is no field of the schema                               *)
(***************************************************************************)
UnknownYamlKeys == {k \in Keys \ Fields : yaml_config[1][k] # Absent}

\* C23: a YAML key that matches no schema field is not merged into the
\* settings, and under extra="forbid" its presence makes resolve fail with
\* a validation failure
C23_UnknownYamlKeyRejected ==
    (pc[1] = "done" /\ UnknownYamlKeys # {}) =>
        /\ ret[1].kind = "raised"
        /\ ret[1].error.cause = "validation"

(***************************************************************************)
(* The source record after a successful resolve                            *)
(***************************************************************************)
\* the value a layer supplies for a field, as the schema reads it
LayerValue(f, layer) ==
    CASE layer = "cli" -> Coerce(f, args[1].cli_overrides[f])
      [] layer = "env" -> Coerce(f, environ[EnvVarOf(f)])
      [] layer = "yaml" -> Coerce(f, yaml_config[1][f])
      [] layer = "default" -> model_fields[f]
      [] OTHER -> Invalid

\* C24: after a successful resolve the source record has one entry for every
\* schema field and for nothing else, and each entry names the layer (cli,
\* env, yaml, default) whose value the returned settings hold
C24_SourcesNameTheWinner ==
    (pc[1] = "done" /\ ret[1].kind = "returned") =>
        /\ DOMAIN _sources = Fields
        /\ \A f \in Fields :
              /\ _sources[f] \in {"cli", "env", "yaml", "default"}
              /\ ret[1].settings[f] = LayerValue(f, _sources[f])

(***************************************************************************)
(* What resolve hands to the logger                                        *)
(***************************************************************************)
\* the values the YAML file, the environment and the overrides supply for
\* the keys of the configuration
ConfigValues ==
    ({yaml_config[t][k] : t \in Threads, k \in Keys}
         \cup {environ[EnvVarOf(f)] : f \in Fields}
         \cup {args[t].cli_overrides[k] : t \in Threads, k \in Keys})
    \ {Absent, None}

WordsLogged == UNION {{log[i].words[j] : j \in 1..Len(log[i].words)} : i \in 1..Len(log)}

\* C25: no record handed to the logger during resolve contains a value that
\* the YAML file, the environment or the overrides supplied; the records
\* carry field names and source layers only
C25_NoValueLogged == WordsLogged \cap ConfigValues = {}

(***************************************************************************)
(* The depth get_model_depth returns                                       *)
(***************************************************************************)
\* the length of the longest chain of nested fields from root, chains
\* longer than n counted as n
DeepestChain(schema, root, n) ==
    CHOOSE k \in 0..n :
        /\ ChainEnds(schema, {root}, k) # {}
        /\ k = n \/ ChainEnds(schema, {root}, k + 1) = {}

\* a chain longer than the number of classes passes some class twice
Acyclic(schema, root) == ~ChainLongerThan(schema, root, MaxLevel)

\* C26 as stated: the depth get_model_depth returns, which is the depth in
\* the error of validate_nesting_depth, is the length of the longest chain
\* of nested schema-typed fields from the root, generics looked into
C26_DepthIsMaximum ==
    (depth_check.called /\ Acyclic(depth_check.schema, depth_check.model_class)) =>
        depth_check.depth =
            DeepestChain(depth_check.schema, depth_check.model_class, MaxLevel)

\* C26: get_model_depth returns the length of the longest chain of nested
\* schema-typed fields from the root, generics looked into, when that is
\* at most MAX_NESTING_DEPTH + 1, and MAX_NESTING_DEPTH + 1 for every
\* longer or endless chain; that number is the depth in the error
C26_DepthUpToCeiling ==
    depth_check.called =>
        /\ depth_check.depth =
              DeepestChain(depth_check.schema, depth_check.model_class,
                           MAX_NESTING_DEPTH + 1)
        /\ depth_check.raised => depth_check.depth = MAX_NESTING_DEPTH + 1

\* Level7 of the chain that holds each child in a dict of lists is rejected
\* with depth 6
C26_Witness ==
    /\ depth_check.called
    /\ depth_check.schema = SchemaOf("dict_of_list", NoExtra)
    /\ depth_check.model_class = 7
    /\ depth_check.depth = 6
    /\ depth_check.raised

(***************************************************************************)
(* Lower-casing file extensions                                            *)
(***************************************************************************)
\* C27: after lowercase_file_extensions(directory) every file under the
\* directory is still there, in the directory it was in, with its stem and
\* its extension in lower case; a file whose extension was in lower case
\* is untouched; no file has left its directory
C27_RenamedInPlace ==
    renamed.called =>
        \A i \in DOMAIN renamed.before :
            LET old == renamed.before[i]
                new == renamed.after[i]
            IN  IsUnder(old.dir, renamed.directory) =>
                    /\ new.there
                    /\ new.dir = old.dir
                    /\ new.stem = old.stem
                    /\ new.suffix = Lower(old.suffix)

(***************************************************************************)
(* The source record across calls                                          *)
(***************************************************************************)
\* a try block that ends with the settings built: the one step in which
\* resolve writes the record
SuccessfulBuild ==
    \E t \in Threads :
        pc[t] = "build" /\ pc'[t] = "finally" /\ pending'[t].kind = "returned"

\* C28: a resolve call that raises leaves the source record as the last
\* successful call left it (empty when there was none), and what a caller
\* does to the dict `sources` returned never reaches the record: the
\* record changes in the step of a successful resolve and in no other
C28_OnlySuccessWritesSources == [][_sources' # _sources => SuccessfulBuild]_vars

\* the first call returned, the second raised, the caller has written into
\* the dict it was handed, and the record is still the first call's
C28_Witness ==
    /\ pc[1] = "done" /\ ret[1].kind = "returned"
    /\ pc[2] = "done" /\ ret[2].kind = "raised"
    /\ handed.called /\ handed.value # _sources
    /\ _sources = TrackSources(environ, yaml_config[1], args[1].cli_overrides)
    /\ _sources # EmptySources

(***************************************************************************)
(* Two resolve calls in two threads                                        *)
(***************************************************************************)
\* BUVIS_CONFIG_DIR before either call started: the call that starts first
\* reads it at line 134 before any call has written it, and no call writes
\* "/original/path"
BeforeEitherStarted ==
    IF \E t \in Threads : original_config_dir[t] = "/original/path"
    THEN "/original/path" ELSE None

\* C29: two resolve calls with different config_dir values run in two
\* threads, their steps interleaved in any order: once both have ended
\* BUVIS_CONFIG_DIR is what it was before either started, the same value
\* or unset
C29_ConfigDirRestoredAfterBoth ==
    BothDone => environ["BUVIS_CONFIG_DIR"] = BeforeEitherStarted

(***************************************************************************)
(* Schemas that refer to themselves                                        *)
(***************************************************************************)
\* C30: get_model_depth ends with a result for every schema, one that
\* refers to itself or to a class that refers back included, and the result
\* is never more than 6; validate_nesting_depth rejects every schema in
\* which a chain of nested fields from the root comes back to a class
C30_CyclesBoundedAndRejected ==
    depth_check.called =>
        /\ depth_check.depth \in 0..6
        /\ ~Acyclic(depth_check.schema, depth_check.model_class) =>
              /\ depth_check.raised
              /\ depth_check.exc = "ValueError"
              /\ depth_check.depth = 6

\* Level1 holds Level0, and Level0 holds Level1 in its second field
C30_Witness ==
    /\ depth_check.called
    /\ depth_check.schema = SchemaOf("optional", [on |-> 0, to |-> 1])
    /\ depth_check.model_class = 1
    /\ depth_check.raised
    /\ depth_check.depth = 6
====
